---- MODULE Spec2Model ----
(***************************************************************************)
(* ONNX Runtime adapter layer of optimum: the standalone task models of    *)
(* modeling_ort.py and the encoder / decoder / decoder-with-past bundle of *)
(* modeling_seq2seq.py.  One model object exists at a time and one caller  *)
(* drives it: every action is one public operation (construction, to(),    *)
(* forward, _reorder_cache, one step of generate()) or the return of the   *)
(* last one, and `last` records what the running operation did: the runner *)
(* calls it made, the events of each call in program order, what was       *)
(* handed to the engine and what was returned.                             *)
(***************************************************************************)
EXTENDS Integers, Sequences, FiniteSets, TLC

VARIABLES
    avail,    \* execution providers compiled into the running engine
    model,    \* the standalone ORTModel object (cls = "none" when there is none)
    bundle,   \* the ORTModelForConditionalGeneration object (cls = "none" when none)
    gen,      \* the generation loop's model kwargs for the running episode
    last,     \* trace and outcome of the last operation
    flight    \* the forward calls two threads have in flight, and the objects
              \* they created, bound and handed to the engine

vars == <<avail, model, bundle, gen, last, flight>>

----------------------------------------------------------------------------
(* Bounds of the model and the configuration of the loaded checkpoints.    *)

\* decoder layers of a loaded checkpoint: 1 or MaxLayers
MaxLayers == 2
\* batch sizes: 1 or MaxBatch
MaxBatch == 2
\* input, encoder and cache sequence lengths: 1 or MaxSeq
MaxSeq == 2
\* decoding steps of one generation episode
MaxSteps == 3
\* config.hidden_size
HiddenSize == 4
\* config.num_attention_heads
NumHeads == 2
\* config.num_labels
NumLabels == 2
\* config.vocab_size
VocabSize == 3

\* number of self-attention and cross-attention tensors per decoder layer
num_pkv == 4

----------------------------------------------------------------------------
(* Generic helpers.                                                        *)

None == <<>>
Some(x) == <<x>>
IsNone(o) == Len(o) = 0
The(o) == o[1]

Range(s) == {s[i] : i \in 1..Len(s)}

RECURSIVE Prod(_)
\* np.prod of a shape
Prod(shape) == IF Len(shape) = 0 THEN 1 ELSE Head(shape) * Prod(Tail(shape))

----------------------------------------------------------------------------
(* Tensors.  v is the symbolic content (which graph output it is and what  *)
(* that graph was fed, or which caller input), rows the order of the batch *)
(* rows of that content the tensor holds, shape its logical shape, device  *)
(* the device it lives on.                                                 *)

Tensor(v, shape, device) ==
    [v |-> v, rows |-> [b \in 1..shape[1] |-> b], shape |-> shape, device |-> device]

\* a tensor supplied by the caller
CallerTensor(name, shape, device) ==
    Tensor([g |-> "caller", o |-> name, depth |-> 0, feed |-> <<>>], shape, device)

\* what the engine reads of a tensor: content and shape, not the device it came from
Val(t) == [v |-> t.v, rows |-> t.rows, shape |-> t.shape]

\* what the content of an engine output records of an input it was computed from
Key(val) ==
    [g |-> val.v.g, o |-> val.v.o, depth |-> val.v.depth, rows |-> val.rows,
     shape |-> val.shape]

\* t.size(k), k counted from 0
Size(t, k) == t.shape[k + 1]

\* torch.Tensor.index_select(0, index)
index_select(t, index) ==
    [t EXCEPT !.rows = [b \in 1..Len(index) |-> t.rows[index[b]]],
              !.shape = [t.shape EXCEPT ![1] = Len(index)]]

\* t.cpu().detach().numpy()
ToNumpy(t) == [t EXCEPT !.device = "cpu"]

\* torch.from_numpy(a).to(device)
FromNumpyTo(a, device) == [a EXCEPT !.device = device]

\* torch.from_numpy(a)
FromNumpy(a) == [a EXCEPT !.device = "cpu"]

----------------------------------------------------------------------------
(* Execution providers and devices (optimum/onnxruntime/utils.py).         *)

CPU == "CPUExecutionProvider"
CUDA == "CUDAExecutionProvider"
TRT == "TensorrtExecutionProvider"
Providers == {CPU, CUDA, TRT}
Devices == {"cpu", "cuda"}

get_device_for_provider(provider) ==
    IF provider \in {CUDA, TRT} THEN "cuda" ELSE "cpu"

get_provider_for_device(device) ==
    IF device = "cuda" THEN CUDA ELSE CPU

validate_provider_availability(provider) == provider \in avail

\* InferenceSession.get_providers() after the session was given `providers`:
\* the engine keeps the requested order and appends its CPU fallback
SessionProviders(providers) ==
    IF CPU \in Range(providers) THEN providers ELSE Append(providers, CPU)

----------------------------------------------------------------------------
(* Tensor names of the exported graphs.                                    *)

CacheName(prefix, i, attn, kv) ==
    prefix \o "." \o ToString(i) \o "." \o attn \o "." \o kv
PastName(i, attn, kv) == CacheName("past_key_values", i, attn, kv)
PresentName(i, attn, kv) == CacheName("present", i, attn, kv)

\* the four cache names of layer i, in the order the exporter declares them
LayerNames(prefix, i) ==
    <<CacheName(prefix, i, "decoder", "key"), CacheName(prefix, i, "decoder", "value"),
      CacheName(prefix, i, "encoder", "key"), CacheName(prefix, i, "encoder", "value")>>

RECURSIVE AllLayerNames(_, _, _)
AllLayerNames(prefix, i, n) ==
    IF i >= n THEN <<>> ELSE LayerNames(prefix, i) \o AllLayerNames(prefix, i + 1, n)

\* the declared names that hold ".key" or ".value"
KeyValueNames ==
    UNION {{PastName(i, attn, kv), PresentName(i, attn, kv)} :
            i \in 0..MaxLayers, attn \in {"decoder", "encoder"}, kv \in {"key", "value"}}

\* ".key" in key or ".value" in key
IsKeyValueName(key) == key \in KeyValueNames

\* the cache input a graph reads for each self-attention cache output
PastOfPresent ==
    [o \in {PresentName(i, "decoder", kv) : i \in 0..MaxLayers, kv \in {"key", "value"}} |->
        CHOOSE n \in KeyValueNames :
            \E i \in 0..MaxLayers, kv \in {"key", "value"} :
                o = PresentName(i, "decoder", kv) /\ n = PastName(i, "decoder", kv)]

----------------------------------------------------------------------------
(* Loaded graphs (ort.InferenceSession): the declared input and output     *)
(* names in declaration order, and the providers the session runs on.      *)

TextInputs(declTokenType) ==
    <<"input_ids", "attention_mask">>
        \o (IF declTokenType THEN <<"token_type_ids">> ELSE <<>>)

StandaloneClasses ==
    {"ORTModelForFeatureExtraction", "ORTModelForQuestionAnswering",
     "ORTModelForSequenceClassification", "ORTModelForTokenClassification",
     "ORTModelForMultipleChoice", "ORTModelForImageClassification",
     "ORTModelForCustomTasks"}

\* the graph each task class is exported to
GraphInputs(cls, declTokenType) ==
    IF cls = "ORTModelForImageClassification" THEN <<"pixel_values">>
    ELSE TextInputs(declTokenType)

GraphOutputs(cls) ==
    CASE cls = "ORTModelForFeatureExtraction" -> <<"last_hidden_state">>
      [] cls = "ORTModelForQuestionAnswering" -> <<"start_logits", "end_logits">>
      [] cls = "ORTModelForCustomTasks" -> <<"last_hidden_state", "pooler_output">>
      [] OTHER -> <<"logits">>

EncoderInputs(cls, declMask) ==
    IF cls = "ORTModelForSpeechSeq2Seq" THEN <<"input_features">>
    ELSE <<"input_ids">> \o (IF declMask THEN <<"attention_mask">> ELSE <<>>)

DecoderInputs(declMask, withPast, layers) ==
    <<"input_ids">>
        \o (IF declMask THEN <<"encoder_attention_mask">> ELSE <<>>)
        \o <<"encoder_hidden_states">>
        \o (IF withPast THEN AllLayerNames("past_key_values", 0, layers) ELSE <<>>)

DecoderOutputs(layers) == <<"logits">> \o AllLayerNames("present", 0, layers)

Session(graph, inputs, outputs, providers) ==
    [graph |-> graph, inputs |-> inputs, outputs |-> outputs,
     providers |-> SessionProviders(providers)]

NoSession == [graph |-> "none", inputs |-> <<>>, outputs |-> <<>>, providers |-> <<>>]

\* InferenceSession.set_providers(providers, provider_options)
set_providers(session, providers) ==
    [session EXCEPT !.providers = SessionProviders(providers)]

----------------------------------------------------------------------------
(* The engine: one deterministic function of the graph and the feed.  The  *)
(* shapes are the ones the exported graphs compute.                        *)

EmptyMap == [n \in {} |-> 0]

\* sequence length already held by the cache fed for output `o`, 0 without cache
FedPastLen(feed, o) ==
    IF PastOfPresent[o] \in DOMAIN feed THEN feed[PastOfPresent[o]].shape[3] ELSE 0

GraphOutputShape(graph, o, feed) ==
    LET head_dim == HiddenSize \div NumHeads IN
    CASE graph \in {"ORTModelForFeatureExtraction", "encoder"} ->
            <<feed["input_ids"].shape[1], feed["input_ids"].shape[2], HiddenSize>>
      [] graph = "ORTModelForCustomTasks" ->
            IF o = "pooler_output"
            THEN <<feed["input_ids"].shape[1], HiddenSize>>
            ELSE <<feed["input_ids"].shape[1], feed["input_ids"].shape[2], HiddenSize>>
      [] graph = "ORTModelForQuestionAnswering" ->
            <<feed["input_ids"].shape[1], feed["input_ids"].shape[2]>>
      [] graph = "ORTModelForSequenceClassification" ->
            <<feed["input_ids"].shape[1], NumLabels>>
      [] graph = "ORTModelForTokenClassification" ->
            <<feed["input_ids"].shape[1], feed["input_ids"].shape[2], NumLabels>>
      [] graph = "ORTModelForMultipleChoice" ->
            <<feed["input_ids"].shape[1], feed["input_ids"].shape[2]>>
      [] graph = "ORTModelForImageClassification" ->
            <<feed["pixel_values"].shape[1], NumLabels>>
      [] graph = "whisper-encoder" ->
            <<feed["input_features"].shape[1],
              feed["input_features"].shape[3] \div 2, HiddenSize>>
      [] graph \in {"decoder", "decoder_with_past"} ->
            IF o = "logits"
            THEN <<feed["input_ids"].shape[1], feed["input_ids"].shape[2], VocabSize>>
            ELSE IF o \in DOMAIN PastOfPresent
            THEN <<feed["input_ids"].shape[1], NumHeads,
                   FedPastLen(feed, o) + feed["input_ids"].shape[2], head_dim>>
            ELSE <<feed["input_ids"].shape[1], NumHeads,
                   feed["encoder_hidden_states"].shape[2], head_dim>>

\* number of engine invocations the deepest input of a feed went through
FeedDepth(feed) ==
    IF DOMAIN feed = {} THEN 0
    ELSE CHOOSE d \in {feed[n].v.depth : n \in DOMAIN feed} :
            \A n \in DOMAIN feed : feed[n].v.depth <= d

\* InferenceSession.run / run_with_iobinding on `feed` (name -> Val):
\* rejects a feed that is not exactly the declared inputs
Engine(session, feed) ==
    IF DOMAIN feed # Range(session.inputs)
    THEN [status |-> "InvalidArgument", out |-> EmptyMap]
    ELSE [status |-> "ok",
          out |-> [o \in Range(session.outputs) |->
                     [v |-> [g |-> session.graph, o |-> o, depth |-> FeedDepth(feed) + 1,
                             feed |-> [n \in DOMAIN feed |-> Key(feed[n])]],
                      shape |-> GraphOutputShape(session.graph, o, feed)]]]

----------------------------------------------------------------------------
(* One runner call: the events in program order, the feed handed to the    *)
(* engine, the outcome and the tensors returned.                           *)

Ev(kind, name) == [ev |-> kind, name |-> name]

NoCall ==
    [runner |-> "none", path |-> "none", status |-> "none", log |-> <<>>,
     fed |-> EmptyMap, out |-> EmptyMap, shapes |-> EmptyMap, past_key_values |-> <<>>,
     plans |-> <<>>]

Call(runner, path, status, log, fed) ==
    [NoCall EXCEPT !.runner = runner, !.path = path, !.status = status,
                   !.log = log, !.fed = fed]

\* an argument of a call: None when the caller did not supply it
Arg(args, n) == IF n \in DOMAIN args THEN Some(args[n]) ELSE None

ArgPairs(names, args) == [i \in 1..Len(names) |-> <<names[i], Arg(args, names[i])>>]

\* a faulty allocation of one element whatever the shape
Empty_unit(shape, device) == [numel |-> 1, device |-> device]

\* torch.empty(np.prod(shape), device=device).contiguous(): a flat buffer
Empty(shape, device) == [numel |-> Prod(shape), device |-> device]

\* one output of a bound call: the buffer allocated for `shape`, bound to the
\* engine with `shape`, and the entry `view` kept for it in output_shapes
Planned(name, shape, view, device) ==
    [name |-> name, shape |-> shape, view |-> view, buffer |-> Empty(shape, device)]

PlanOf(plans, n) == CHOOSE p \in Range(plans) : p.name = n

\* product of the axes of a shape that are not -1
KnownNumel(shape) == Prod([k \in 1..Len(shape) |-> IF shape[k] = -1 THEN 1 ELSE shape[k]])

\* shape of buffer.view(shape): a -1 axis takes what the element count leaves
ViewShape(numel, shape) ==
    [k \in 1..Len(shape) |-> IF shape[k] = -1 THEN numel \div KnownNumel(shape) ELSE shape[k]]

\* the tensor over a bound buffer, seen with `shape`, after the engine wrote
\* its output `written` through the binding
ViewOf(plan, written, shape) ==
    [v |-> IF plan.shape = written.shape THEN written.v
           ELSE [g |-> "unwritten", o |-> plan.name, depth |-> 0, feed |-> <<>>],
     rows |-> [b \in 1..shape[1] |-> b],
     shape |-> shape,
     device |-> plan.buffer.device]

\* output_buffers[name].view(output_shapes[name])
BufferView(plan, written) == ViewOf(plan, written, ViewShape(plan.buffer.numel, plan.view))

\* TypeHelper.get_io_numpy_type_map(session): the names that have an entry in
\* name_to_np_type, one per declared input and output
name_to_np_type(session) == Range(session.inputs) \cup Range(session.outputs)

RECURSIVE BindInputs(_, _, _)
\* io_binding.bind_input for each (name, tensor) in order; t.contiguous() on a
\* tensor the caller left out raises, and so does name_to_np_type[name] for a
\* name that has no entry
BindInputs(pairs, types, acc) ==
    IF pairs = <<>> THEN acc
    ELSE IF IsNone(Head(pairs)[2]) THEN [acc EXCEPT !.status = "AttributeError"]
    ELSE IF Head(pairs)[1] \notin types THEN [acc EXCEPT !.status = "KeyError"]
    ELSE BindInputs(Tail(pairs), types,
            [acc EXCEPT !.log = Append(@, Ev("bind_input", Head(pairs)[1])),
                        !.fed = @ @@ (Head(pairs)[1] :> Val(The(Head(pairs)[2])))])

RECURSIVE NumpyInputs(_, _)
\* onnx_inputs[name] = t.cpu().detach().numpy() for each (name, tensor) in order
NumpyInputs(pairs, acc) ==
    IF pairs = <<>> THEN acc
    ELSE IF IsNone(Head(pairs)[2]) THEN [acc EXCEPT !.status = "AttributeError"]
    ELSE NumpyInputs(Tail(pairs),
            [acc EXCEPT !.fed = @ @@ (Head(pairs)[1] :> Val(ToNumpy(The(Head(pairs)[2]))))])

\* what prepare_io_binding leaves: the bindings made so far, and the planned
\* outputs once every input was bound
Prepared(ins, plans, outlog) ==
    IF ins.status # "ok"
    THEN [status |-> ins.status, log |-> ins.log, fed |-> ins.fed, plans |-> <<>>]
    ELSE [status |-> "ok", log |-> ins.log \o outlog, fed |-> ins.fed, plans |-> plans]

\* prepare_io_binding: session.io_binding(), the input bindings, then the
\* allocation and binding events `outlog` of the outputs `plans`
PrepareBinding(pairs, types, plans, outlog) ==
    Prepared(BindInputs(pairs, types,
                [status |-> "ok", log |-> <<Ev("io_binding", "")>>, fed |-> EmptyMap]),
             plans, outlog)

\* a faulty order that binds an output before its buffer is allocated
AllocAndBind_binding_first(name) ==
    <<Ev("get_output_type", name), Ev("bind_output", name), Ev("empty", name)>>

\* get_output_type, torch.empty and bind_output of one output
AllocAndBind(name) ==
    <<Ev("get_output_type", name), Ev("empty", name), Ev("bind_output", name)>>

\* a faulty order of the bound forward: the output buffers are read before
\* synchronize_outputs
BoundLog_reading_early(preplog, after) ==
    preplog
    \o <<Ev("synchronize_inputs", ""), Ev("run_with_iobinding", "")>>
    \o after
    \o <<Ev("synchronize_outputs", "")>>

\* the events of a bound forward: the bindings, synchronize_inputs,
\* run_with_iobinding, synchronize_outputs, then the reads `after` of the
\* output buffers
BoundLog(preplog, after) ==
    preplog
    \o <<Ev("synchronize_inputs", ""), Ev("run_with_iobinding", ""),
         Ev("synchronize_outputs", "")>>
    \o after

\* a faulty bound path that hands the buffers it allocated to the caller when
\* the engine failed
BoundResult_exposing(runner, prep, after, eng) ==
    IF prep.status # "ok"
    THEN Call(runner, "bound", prep.status, prep.log, prep.fed)
    ELSE [Call(runner, "bound", eng.status,
               BoundLog(prep.log, IF eng.status = "ok" THEN after ELSE <<>>),
               prep.fed) EXCEPT
            !.plans = prep.plans,
            !.out = [n \in {p.name : p \in Range(prep.plans)} |->
                        BufferView(PlanOf(prep.plans, n),
                                   IF eng.status = "ok" THEN eng.out[n]
                                   ELSE [v |-> <<>>, shape |-> <<>>])],
            !.shapes = [n \in {p.name : p \in Range(prep.plans)} |->
                        PlanOf(prep.plans, n).view]]

\* the bound path of a forward once the engine answered `eng`
BoundResult(runner, prep, after, eng) ==
    IF prep.status # "ok"
    THEN Call(runner, "bound", prep.status, prep.log, prep.fed)
    ELSE IF eng.status # "ok"
    THEN [Call(runner, "bound", eng.status,
               prep.log \o <<Ev("synchronize_inputs", ""), Ev("run_with_iobinding", "")>>,
               prep.fed) EXCEPT
            !.plans = prep.plans,
            !.shapes = [n \in {p.name : p \in Range(prep.plans)} |->
                        PlanOf(prep.plans, n).view]]
    ELSE [Call(runner, "bound", "ok", BoundLog(prep.log, after), prep.fed) EXCEPT
            !.plans = prep.plans,
            !.out = [n \in {p.name : p \in Range(prep.plans)} |->
                        BufferView(PlanOf(prep.plans, n), eng.out[n])],
            !.shapes = [n \in {p.name : p \in Range(prep.plans)} |->
                        PlanOf(prep.plans, n).view]]

\* the bound path of a forward
BoundCall(runner, session, prep, after) ==
    BoundResult(runner, prep, after, Engine(session, prep.fed))

\* a faulty fallback that invokes the engine on the inputs gathered so far
\* when an input could not be prepared
FallbackResult_invoking(runner, ins, eng, reads, device) ==
    IF ins.status # "ok" \/ eng.status # "ok"
    THEN Call(runner, "fallback", IF ins.status # "ok" THEN ins.status ELSE eng.status,
              <<Ev("run", "")>>, ins.fed)
    ELSE [Call(runner, "fallback", "ok",
               <<Ev("run", "")>> \o [i \in 1..Len(reads) |-> Ev("from_numpy", reads[i])],
               ins.fed) EXCEPT
            !.out = [n \in Range(reads) |->
                        FromNumpyTo(Tensor(eng.out[n].v, eng.out[n].shape, "cpu"), device)]]

\* the fallback path of a forward once the engine answered `eng`: the outputs
\* `reads` wrapped by torch.from_numpy and put on `device`
FallbackResult(runner, ins, eng, reads, device) ==
    IF ins.status # "ok"
    THEN Call(runner, "fallback", ins.status, <<>>, ins.fed)
    ELSE IF eng.status # "ok"
    THEN Call(runner, "fallback", eng.status, <<Ev("run", "")>>, ins.fed)
    ELSE [Call(runner, "fallback", "ok",
               <<Ev("run", "")>> \o [i \in 1..Len(reads) |-> Ev("from_numpy", reads[i])],
               ins.fed) EXCEPT
            !.out = [n \in Range(reads) |->
                        FromNumpyTo(Tensor(eng.out[n].v, eng.out[n].shape, "cpu"), device)]]

\* session.run(None, onnx_inputs) and the wrapping of its outputs
FallbackRun(runner, session, ins, reads, device) ==
    FallbackResult(runner, ins, Engine(session, ins.fed), reads, device)

\* the fallback path of a forward: numpy copies of the inputs, session.run,
\* and the outputs wrapped
FallbackCall(runner, session, pairs, reads, device) ==
    FallbackRun(runner, session,
                NumpyInputs(pairs, [status |-> "ok", fed |-> EmptyMap]), reads, device)

----------------------------------------------------------------------------
(* Standalone task models (modeling_ort.py).                               *)

NoModel ==
    [cls |-> "none", session |-> NoSession, device |-> "cpu", providers |-> <<>>,
     use_io_binding |-> FALSE]

\* ORTModel.load_model: the providers handed to ort.InferenceSession
load_model_providers(provider) ==
    IF provider = TRT THEN <<provider, CUDA>> ELSE <<provider>>

\* ORTModel.load_model: the providers and provider_options arguments of
\* ort.InferenceSession; provider_options is None or the caller's dictionary
InferenceSessionArgs(provider, provider_options) ==
    [providers |-> load_model_providers(provider),
     provider_options |-> IF IsNone(provider_options) THEN None
                          ELSE Some(<<The(provider_options)>>)]

\* to(): the arguments of session.set_providers([provider],
\* provider_options=[provider_options]), the options being the ones
\* parse_device returned for the device
SetProvidersArgs(device) ==
    [providers |-> <<get_provider_for_device(device)>>,
     provider_options |-> Some(<<[device |-> device]>>)]

\* a faulty __init__ that keeps the requested flag whatever the providers
kept_use_io_binding(providers, use_io_binding) == use_io_binding

\* ORTModel.__init__: use_io_binding after the TensorrtExecutionProvider check
forced_use_io_binding(providers, use_io_binding) ==
    IF TRT \in Range(providers) /\ use_io_binding THEN FALSE ELSE use_io_binding

\* ORTModel.__init__ (through the task class's __init__)
ORTModel_init(cls, session, use_io_binding) ==
    [cls |-> cls,
     session |-> session,
     device |-> get_device_for_provider(session.providers[1]),
     providers |-> session.providers,
     use_io_binding |-> forced_use_io_binding(session.providers, use_io_binding)]

\* a faulty path test that looks at the flag only
use_bound_path_any_device(device, use_io_binding) == use_io_binding

\* the test every forward makes to choose the I/O-binding path
use_bound_path(device, use_io_binding) == device = "cuda" /\ use_io_binding

\* the names prepare_io_binding binds as inputs, in order
StandaloneBoundInputs(cls, args) ==
    IF cls = "ORTModelForImageClassification" THEN <<"pixel_values">>
    ELSE <<"input_ids", "attention_mask">>
            \o (IF "token_type_ids" \in DOMAIN args THEN <<"token_type_ids">> ELSE <<>>)

\* the names the fallback path puts in onnx_inputs, in order
StandaloneOnnxInputs(cls, args) ==
    IF cls = "ORTModelForImageClassification" THEN <<"pixel_values">>
    ELSE <<"input_ids", "attention_mask">>
            \o (IF "token_type_ids" \in DOMAIN args THEN <<"token_type_ids">> ELSE <<>>)

\* a faulty plan that takes the flat extent of the buffer for its shape
Buffer_flat(name, shape, device) == Planned(name, <<Prod(shape)>>, <<Prod(shape)>>, device)

\* a buffer whose output_shapes entry is the shape it was allocated for
Buffer(name, shape, device) == Planned(name, shape, shape, device)

\* prepare_output_buffer / prepare_logits_buffer of each task class, as called
\* by its prepare_io_binding on the tensor `ids` (input_ids or pixel_values)
OutputBuffers(cls, ids, device) ==
    CASE cls = "ORTModelForFeatureExtraction" ->
            <<Buffer("last_hidden_state", <<Size(ids, 0), Size(ids, 1), HiddenSize>>, device)>>
      [] cls = "ORTModelForQuestionAnswering" ->
            <<Buffer("start_logits", <<Size(ids, 0), Size(ids, 1)>>, device),
              Buffer("end_logits", <<Size(ids, 0), Size(ids, 1)>>, device)>>
      [] cls = "ORTModelForSequenceClassification" ->
            <<Buffer("logits", <<Size(ids, 0), NumLabels>>, device)>>
      [] cls = "ORTModelForTokenClassification" ->
            <<Buffer("logits", <<Size(ids, 0), Size(ids, 1), NumLabels>>, device)>>
      [] cls = "ORTModelForMultipleChoice" ->
            <<Buffer("logits", <<Size(ids, 0), Size(ids, 1)>>, device)>>
      [] cls = "ORTModelForImageClassification" ->
            <<Buffer("logits", <<Size(ids, 0), NumLabels>>, device)>>

StandaloneOutputPlans(m, args) ==
    OutputBuffers(m.cls,
                  IF m.cls = "ORTModelForImageClassification" THEN args["pixel_values"]
                  ELSE args["input_ids"],
                  m.device)

\* allocation and binding of the outputs, in the order of prepare_io_binding
StandaloneOutputLog(cls) ==
    CASE cls = "ORTModelForFeatureExtraction" -> AllocAndBind("last_hidden_state")
      [] cls = "ORTModelForQuestionAnswering" ->
            <<Ev("get_output_type", "start_logits"), Ev("empty", "start_logits"),
              Ev("get_output_type", "end_logits"), Ev("empty", "end_logits"),
              Ev("bind_output", "start_logits"), Ev("bind_output", "end_logits")>>
      [] OTHER -> AllocAndBind("logits")

\* what the bound path does after synchronize_outputs
StandaloneAfter(cls) ==
    CASE cls = "ORTModelForFeatureExtraction" -> <<Ev("view", "last_hidden_state")>>
      [] cls = "ORTModelForQuestionAnswering" ->
            <<Ev("get_outputs", "start_logits"), Ev("get_outputs", "end_logits"),
              Ev("view", "start_logits"), Ev("view", "end_logits")>>
      [] cls \in {"ORTModelForSequenceClassification", "ORTModelForTokenClassification"} ->
            <<Ev("get_outputs", "logits"), Ev("view", "logits")>>
      [] OTHER -> <<Ev("view", "logits")>>

\* the bound branch of ORTModelForXxx.forward
StandaloneBound(m, args) ==
    BoundCall("model", m.session,
        PrepareBinding(ArgPairs(StandaloneBoundInputs(m.cls, args), args),
                       name_to_np_type(m.session),
                       StandaloneOutputPlans(m, args),
                       StandaloneOutputLog(m.cls)),
        StandaloneAfter(m.cls))

\* torch.from_numpy(...) of a fallback output: ORTModelForImageClassification
\* leaves out the .to(self.device) the other classes apply
StandaloneWrapDevice(m) ==
    IF m.cls = "ORTModelForImageClassification" THEN "cpu" ELSE m.device

\* the fallback branch of ORTModelForXxx.forward
StandaloneFallback(m, args) ==
    FallbackCall("model", m.session,
        ArgPairs(StandaloneOnnxInputs(m.cls, args), args),
        GraphOutputs(m.cls), StandaloneWrapDevice(m))

RECURSIVE PopInputs_skipping(_, _, _)
\* a faulty _prepare_onnx_inputs that passes over a name the caller left out
PopInputs_skipping(names, kwargs, acc) ==
    IF names = <<>> THEN acc
    ELSE IF Head(names) \notin DOMAIN kwargs THEN PopInputs_skipping(Tail(names), kwargs, acc)
    ELSE PopInputs_skipping(Tail(names), kwargs,
            [acc EXCEPT !.fed = @ @@ (Head(names) :> Val(ToNumpy(kwargs[Head(names)])))])

RECURSIVE PopInputs(_, _, _)
\* ORTModelForCustomTasks._prepare_onnx_inputs: kwargs.pop(input) for every
\* input the session declares
PopInputs(names, kwargs, acc) ==
    IF names = <<>> THEN acc
    ELSE IF Head(names) \notin DOMAIN kwargs THEN [acc EXCEPT !.status = "KeyError"]
    ELSE PopInputs(Tail(names), kwargs,
            [acc EXCEPT !.fed = @ @@ (Head(names) :> Val(ToNumpy(kwargs[Head(names)])))])

\* ORTModelForCustomTasks.forward: always session.run, every declared output
\* wrapped and put on the model's device
CustomTasksForward(m, kwargs) ==
    FallbackRun("model", m.session,
        PopInputs(m.session.inputs, kwargs, [status |-> "ok", fed |-> EmptyMap]),
        m.session.outputs, m.device)

\* ORTModelForXxx.forward
StandaloneForward(m, args) ==
    IF m.cls = "ORTModelForCustomTasks" THEN CustomTasksForward(m, args)
    ELSE IF use_bound_path(m.device, m.use_io_binding) THEN StandaloneBound(m, args)
    ELSE StandaloneFallback(m, args)

----------------------------------------------------------------------------
(* Encoder and decoder runners (modeling_seq2seq.py).                      *)

NoRunner == [cls |-> "none", session |-> NoSession, device |-> "cpu",
             use_io_binding |-> FALSE]

\* ORTEncoder.__init__ / ORTDecoder.__init__
Runner(cls, session, device, use_io_binding) ==
    [cls |-> cls, session |-> session, device |-> device,
     use_io_binding |-> use_io_binding]

\* ORTDecoder.__init__: names declared by the session that hold ".key" or ".value"
key_value_input_names(dec) == SelectSeq(dec.session.inputs, IsKeyValueName)
key_value_output_names(dec) == SelectSeq(dec.session.outputs, IsKeyValueName)

\* ORTEncoder.prepare_output_buffer
EncoderOutputPlan(enc, batch_size, sequence_length) ==
    <<Buffer("last_hidden_state", <<batch_size, sequence_length, HiddenSize>>, enc.device)>>

\* the (name, tensor) pairs the encoder binds or copies, in order
EncoderInputPairs(enc, args) ==
    <<<<"input_ids", Arg(args, "input_ids")>>>>
    \o (IF "attention_mask" \in Range(enc.session.inputs)
        THEN <<<<"attention_mask", Arg(args, "attention_mask")>>>>
        ELSE <<>>)

\* the output ORTEncoder.prepare_io_binding allocates and binds
EncoderOutputPlans(enc, args) ==
    EncoderOutputPlan(enc, Size(args["input_ids"], 0), Size(args["input_ids"], 1))

\* ORTEncoder.forward, bound branch (ORTEncoder.prepare_io_binding)
EncoderBound(enc, args) ==
    BoundCall("encoder", enc.session,
        PrepareBinding(EncoderInputPairs(enc, args), name_to_np_type(enc.session),
            EncoderOutputPlans(enc, args),
            AllocAndBind("last_hidden_state")),
        <<Ev("view", "last_hidden_state")>>)

\* ORTEncoder.forward, fallback branch
EncoderFallback(enc, args) ==
    FallbackCall("encoder", enc.session, EncoderInputPairs(enc, args),
                 <<"last_hidden_state">>, enc.device)

\* a faulty plan that takes the feature length for the sequence length
WhisperEncoderOutputPlans_undivided(enc, args) ==
    EncoderOutputPlan(enc, Size(args["input_features"], 0), Size(args["input_features"], 2))

\* the output ORTEncoderForWhisper.prepare_io_binding allocates and binds
WhisperEncoderOutputPlans(enc, args) ==
    EncoderOutputPlan(enc, Size(args["input_features"], 0),
                      Size(args["input_features"], 2) \div 2)

\* ORTEncoderForWhisper.forward, bound branch (ORTEncoderForWhisper.prepare_io_binding)
WhisperEncoderBound(enc, args) ==
    BoundCall("encoder", enc.session,
        PrepareBinding(<<<<"input_features", Arg(args, "input_features")>>>>,
            name_to_np_type(enc.session),
            WhisperEncoderOutputPlans(enc, args),
            AllocAndBind("last_hidden_state")),
        <<Ev("view", "last_hidden_state")>>)

\* ORTEncoderForWhisper.forward, fallback branch
WhisperEncoderFallback(enc, args) ==
    FallbackCall("encoder", enc.session,
                 <<<<"input_features", Arg(args, "input_features")>>>>,
                 <<"last_hidden_state">>, enc.device)

\* ORTEncoder.forward / ORTEncoderForWhisper.forward
EncoderForward(enc, args) ==
    IF enc.cls = "ORTEncoderForWhisper"
    THEN IF use_bound_path(enc.device, enc.use_io_binding)
         THEN WhisperEncoderBound(enc, args) ELSE WhisperEncoderFallback(enc, args)
    ELSE IF use_bound_path(enc.device, enc.use_io_binding)
         THEN EncoderBound(enc, args) ELSE EncoderFallback(enc, args)

\* a faulty flattening that takes the tensors position by position: the first
\* of every layer, then the second of every layer, and so on
Flatten_by_position(past_key_values) ==
    [k \in 1..(num_pkv * Len(past_key_values)) |->
        past_key_values[((k - 1) % Len(past_key_values)) + 1]
                       [((k - 1) \div Len(past_key_values)) + 1]]

RECURSIVE Flatten(_)
\* [past_key_value for pkv_per_layer in past_key_values for past_key_value in pkv_per_layer]
Flatten(past_key_values) ==
    IF past_key_values = <<>> THEN <<>>
    ELSE Head(past_key_values) \o Flatten(Tail(past_key_values))

\* a faulty regrouping: layer g takes every (Len \div num_pkv)-th element
Regroup_strided(flat) ==
    [g \in 1..(Len(flat) \div num_pkv) |->
        [j \in 1..num_pkv |-> flat[(j - 1) * (Len(flat) \div num_pkv) + g]]]

\* tuple(flat[i : i + num_pkv] for i in range(0, len(flat), num_pkv))
Regroup(flat) ==
    [g \in 1..((Len(flat) + num_pkv - 1) \div num_pkv) |->
        SubSeq(flat, (g - 1) * num_pkv + 1,
               IF g * num_pkv < Len(flat) THEN g * num_pkv ELSE Len(flat))]

\* [names[i : i + num_pkv] for i in range(0, len(names), num_pkv)]
NameGroups(names) ==
    [g \in 1..((Len(names) + num_pkv - 1) \div num_pkv) |->
        SubSeq(names, (g - 1) * num_pkv + 1,
               IF g * num_pkv < Len(names) THEN g * num_pkv ELSE Len(names))]

\* zip(names, values)
Zip(names, values) ==
    [i \in 1..(IF Len(names) < Len(values) THEN Len(names) ELSE Len(values)) |->
        <<names[i], Some(values[i])>>]

\* a faulty shape that leaves the cached length out of the self-attention axis
DecoderOutputShape_without_past(output_name, batch_size, sequence_length, encoder_sequence_length, past_sequence_length, is_self_attn) ==
    IF output_name = "loss" THEN <<1>>
    ELSE IF output_name = "logits" THEN <<batch_size, sequence_length, VocabSize>>
    ELSE IF is_self_attn
    THEN <<batch_size, NumHeads, sequence_length, HiddenSize \div NumHeads>>
    ELSE <<batch_size, NumHeads, encoder_sequence_length, HiddenSize \div NumHeads>>

\* ORTDecoder.prepare_output_buffer: the shape the buffer is allocated for
DecoderOutputShape(output_name, batch_size, sequence_length, encoder_sequence_length, past_sequence_length, is_self_attn) ==
    IF output_name = "loss" THEN <<1>>
    ELSE IF output_name = "logits" THEN <<batch_size, sequence_length, VocabSize>>
    ELSE IF is_self_attn
    THEN <<batch_size, NumHeads,
           IF IsNone(past_sequence_length) THEN sequence_length
           ELSE sequence_length + The(past_sequence_length),
           HiddenSize \div NumHeads>>
    ELSE <<batch_size, NumHeads, encoder_sequence_length, HiddenSize \div NumHeads>>

\* shape[:2] + (-1,) + shape[3:]
UnknownSeqLen(shape) == [shape EXCEPT ![3] = -1]

\* a faulty plan that keeps the allocated sequence length in output_shapes
CacheBuffer_concrete(name, shape, device) == Planned(name, shape, shape, device)

\* a cache output: its buffer, and the output_shapes entry with the sequence
\* axis left open
CacheBuffer(name, shape, device) == Planned(name, shape, UnknownSeqLen(shape), device)

\* the (name, tensor) pairs ORTDecoder.prepare_io_binding binds, in order;
\* flat is the flattened cache (None without cache)
DecoderBoundInputs(dec, d, flat) ==
    <<<<"input_ids", Some(d.input_ids)>>>>
    \o (IF "encoder_attention_mask" \in Range(dec.session.inputs)
        THEN <<<<"encoder_attention_mask", d.encoder_attention_mask>>>> ELSE <<>>)
    \o (IF "encoder_hidden_states" \in Range(dec.session.inputs)
        THEN <<<<"encoder_hidden_states", Some(d.encoder_hidden_states)>>>> ELSE <<>>)
    \o (IF ~IsNone(flat) THEN Zip(key_value_input_names(dec), The(flat)) ELSE <<>>)
    \o (IF "labels" \in Range(dec.session.inputs)
        THEN <<<<"labels", d.labels>>>> ELSE <<>>)

\* the (name, tensor) pairs the fallback branch of ORTDecoder.forward puts in
\* onnx_inputs, in order
DecoderOnnxInputs(dec, d, flat) ==
    <<<<"input_ids", Some(d.input_ids)>>>>
    \o (IF "encoder_attention_mask" \in Range(dec.session.inputs)
        THEN <<<<"encoder_attention_mask", d.encoder_attention_mask>>>> ELSE <<>>)
    \o (IF "encoder_hidden_states" \in Range(dec.session.inputs)
        THEN <<<<"encoder_hidden_states", Some(d.encoder_hidden_states)>>>> ELSE <<>>)
    \o (IF ~IsNone(flat) THEN Zip(key_value_input_names(dec), The(flat)) ELSE <<>>)
    \o (IF "labels" \in Range(dec.session.inputs)
        THEN <<<<"labels", d.labels>>>> ELSE <<>>)

\* a faulty grouping that takes the names of a group for self-attention and
\* cross-attention in turn
GroupPlans_alternating(group, device, batch, seq, enc_len, past_len) ==
    <<CacheBuffer(group[1],
                  DecoderOutputShape(group[1], batch, seq, 0, past_len, TRUE), device),
      CacheBuffer(group[2],
                  DecoderOutputShape(group[2], batch, 0, enc_len, None, FALSE), device),
      CacheBuffer(group[3],
                  DecoderOutputShape(group[3], batch, seq, 0, past_len, TRUE), device),
      CacheBuffer(group[4],
                  DecoderOutputShape(group[4], batch, 0, enc_len, None, FALSE), device)>>

\* the cache outputs ORTDecoder.prepare_io_binding allocates and binds for one
\* group of num_pkv names: self-attention and cross-attention, twice
GroupPlans(group, device, batch, seq, enc_len, past_len) ==
    <<CacheBuffer(group[1],
                  DecoderOutputShape(group[1], batch, seq, 0, past_len, TRUE), device),
      CacheBuffer(group[3],
                  DecoderOutputShape(group[3], batch, 0, enc_len, None, FALSE), device),
      CacheBuffer(group[2],
                  DecoderOutputShape(group[2], batch, seq, 0, past_len, TRUE), device),
      CacheBuffer(group[4],
                  DecoderOutputShape(group[4], batch, 0, enc_len, None, FALSE), device)>>

\* the outputs ORTDecoder.prepare_io_binding allocates and binds, in order:
\* logits, loss when declared, then the cache outputs group by group
PlansOf(dec, groups, batch, seq, enc_len, past_len) ==
    <<Buffer("logits", DecoderOutputShape("logits", batch, seq, 0, None, FALSE),
             dec.device)>>
    \o (IF "loss" \in Range(dec.session.outputs)
        THEN <<Buffer("loss", DecoderOutputShape("loss", batch, seq, 0, None, FALSE),
                      dec.device)>>
        ELSE <<>>)
    \o Flatten([g \in 1..Len(groups) |->
                  GroupPlans(groups[g], dec.device, batch, seq, enc_len, past_len)])

DecoderOutputPlans(dec, d, flat) ==
    PlansOf(dec, NameGroups(key_value_output_names(dec)),
            Size(d.input_ids, 0), Size(d.input_ids, 1),
            Size(d.encoder_hidden_states, 1),
            IF ~IsNone(flat) /\ Len(The(flat)) > 0
            THEN Some(Size(The(flat)[1], 2)) ELSE None)

\* ORTDecoder.prepare_io_binding
DecoderBinding(pairs, types, plans) ==
    PrepareBinding(pairs, types, plans,
                   Flatten([i \in 1..Len(plans) |-> AllocAndBind(plans[i].name)]))

\* what the bound branch reads after synchronize_outputs: the cache outputs,
\* logits, loss when declared
DecoderAfter(dec) ==
    [i \in 1..Len(key_value_output_names(dec)) |->
        Ev("view", key_value_output_names(dec)[i])]
    \o <<Ev("view", "logits")>>
    \o (IF "loss" \in Range(dec.session.outputs) THEN <<Ev("view", "loss")>> ELSE <<>>)

\* the outputs the fallback branch wraps
DecoderReads(dec) ==
    key_value_output_names(dec) \o <<"logits">>
    \o (IF "loss" \in Range(dec.session.outputs) THEN <<"loss">> ELSE <<>>)

\* one tensor per key/value output name, in the order of key_value_output_names
CacheOutputs(names, out) == [i \in 1..Len(names) |-> out[names[i]]]

\* the Seq2SeqLMOutput of ORTDecoder.forward: the call with the cache regrouped
\* per layer
DecoderResult(dec, call) ==
    IF call.status = "ok"
    THEN [call EXCEPT !.past_key_values =
                        Regroup(CacheOutputs(key_value_output_names(dec), call.out))]
    ELSE call

\* ORTDecoder.forward, bound branch
DecoderBound(dec, runner, d, flat) ==
    DecoderResult(dec,
        BoundCall(runner, dec.session,
                  DecoderBinding(DecoderBoundInputs(dec, d, flat),
                                 name_to_np_type(dec.session),
                                 DecoderOutputPlans(dec, d, flat)),
                  DecoderAfter(dec)))

\* ORTDecoder.forward, fallback branch
DecoderFallback(dec, runner, d, flat) ==
    DecoderResult(dec,
        FallbackCall(runner, dec.session, DecoderOnnxInputs(dec, d, flat),
                     DecoderReads(dec), dec.device))

\* ORTDecoder.forward on the flattened cache
DecoderRun(dec, runner, d, flat) ==
    IF use_bound_path(dec.device, dec.use_io_binding)
    THEN DecoderBound(dec, runner, d, flat)
    ELSE DecoderFallback(dec, runner, d, flat)

\* ORTDecoder.forward
DecoderForward(dec, runner, d) ==
    DecoderRun(dec, runner, d,
               IF IsNone(d.past_key_values) THEN None
               ELSE Some(Flatten(The(d.past_key_values))))

----------------------------------------------------------------------------
(* The conditional-generation bundle (modeling_seq2seq.py).                *)

BundleClasses == {"ORTModelForSeq2SeqLM", "ORTModelForSpeechSeq2Seq"}

NoBundle ==
    [cls |-> "none", model_type |-> "none", device |-> "cpu", providers |-> <<>>,
     use_io_binding |-> FALSE, use_cache |-> FALSE,
     encoder |-> NoRunner, decoder |-> NoRunner, decoder_with_past |-> NoRunner]

\* ORTModelForSpeechSeq2Seq._MODEL_TYPE_TO_ORTENCODER
MODEL_TYPE_TO_ORTENCODER == [whisper |-> "ORTEncoderForWhisper"]

\* ORTModelForConditionalGeneration.__init__: use_io_binding after the
\* TensorrtExecutionProvider check
bundle_use_io_binding(providers, use_io_binding) ==
    IF TRT \in Range(providers) /\ use_io_binding THEN FALSE ELSE use_io_binding

\* a faulty _initialize_encoder that falls back on ORTEncoder for a model type
\* that has no entry
initialize_encoder_defaulting(cls, model_type) ==
    IF cls = "ORTModelForSeq2SeqLM" THEN "ORTEncoder"
    ELSE IF model_type \notin DOMAIN MODEL_TYPE_TO_ORTENCODER THEN "ORTEncoder"
    ELSE MODEL_TYPE_TO_ORTENCODER[model_type]

\* _initialize_encoder of the two bundle classes: the encoder class, or
\* "KeyError" for a speech model type that has no entry
initialize_encoder(cls, model_type) ==
    IF cls = "ORTModelForSeq2SeqLM" THEN "ORTEncoder"
    ELSE IF model_type \notin DOMAIN MODEL_TYPE_TO_ORTENCODER THEN "KeyError"
    ELSE MODEL_TYPE_TO_ORTENCODER[model_type]

\* the three runners and the fields of a bundle whose device and flag are settled
BundleOf(cls, model_type, encoder_session, decoder_session, decoder_with_past_session, device, flag) ==
    [cls |-> cls,
     model_type |-> model_type,
     device |-> device,
     providers |-> encoder_session.providers,
     use_io_binding |-> flag,
     use_cache |-> decoder_with_past_session.graph # "none",
     encoder |-> Runner(initialize_encoder(cls, model_type), encoder_session,
                        device, flag),
     decoder |-> Runner("ORTDecoder", decoder_session, device, flag),
     decoder_with_past |->
         IF decoder_with_past_session.graph # "none"
         THEN Runner("ORTDecoder", decoder_with_past_session, device, flag)
         ELSE NoRunner]

\* ORTModelForConditionalGeneration.__init__ on the three loaded sessions
\* (decoder_with_past_session is NoSession when no such file was loaded)
ConditionalGeneration_init(cls, model_type, encoder_session, decoder_session, decoder_with_past_session, use_io_binding) ==
    BundleOf(cls, model_type, encoder_session, decoder_session,
             decoder_with_past_session,
             get_device_for_provider(encoder_session.providers[1]),
             bundle_use_io_binding(encoder_session.providers, use_io_binding))

\* a runner after to(device): its device, and its session on the new provider
Moved(r, device) ==
    [r EXCEPT !.device = device,
              !.session = set_providers(r.session, <<get_provider_for_device(device)>>)]

\* a faulty to() that leaves the decoder with past where it was
ConditionalGeneration_to_without_past(b, device) ==
    [b EXCEPT
       !.device = device,
       !.encoder = Moved(b.encoder, device),
       !.decoder = Moved(b.decoder, device),
       !.providers = Moved(b.encoder, device).session.providers]

\* ORTModelForConditionalGeneration.to, after validate_provider_availability passed
ConditionalGeneration_to(b, device) ==
    [b EXCEPT
       !.device = device,
       !.encoder = Moved(b.encoder, device),
       !.decoder = Moved(b.decoder, device),
       !.decoder_with_past =
           IF b.decoder_with_past.cls # "none" THEN Moved(b.decoder_with_past, device)
           ELSE b.decoder_with_past,
       !.providers = Moved(b.encoder, device).session.providers]

\* a faulty cut that keeps the whole of decoder_input_ids
LastToken_whole(t) == t

\* decoder_input_ids[:, -1:]
LastToken(t) ==
    IF t.shape[2] = 1 THEN t
    ELSE [t EXCEPT !.v = [g |-> "caller", o |-> "decoder_input_ids[:, -1:]",
                          depth |-> 0, feed |-> ("of" :> Key(Val(t)))],
                   !.shape = [t.shape EXCEPT ![2] = 1]]

Restrict(f, names) == [n \in DOMAIN f \cap names |-> f[n]]

\* the result of a bundle forward: the runner calls made, in order, and the
\* Seq2SeqLMOutput built from the decoder's output
StepResult(calls, dec) ==
    [status |-> dec.status,
     calls |-> Append(calls, dec),
     out |-> IF dec.status = "ok" THEN ("logits" :> dec.out["logits"]) ELSE EmptyMap,
     past_key_values |-> IF dec.status = "ok" THEN Some(dec.past_key_values) ELSE None]

\* a bundle forward that ended in the encoder
StepFailed(call) ==
    [status |-> call.status, calls |-> <<call>>, out |-> EmptyMap,
     past_key_values |-> None]

\* a faulty test that looks at the cache only
use_decoder_without_past_by_cache(b, past_key_values) == IsNone(past_key_values)

\* the test of forward between the decoder and the decoder with past
use_decoder_without_past(b, past_key_values) ==
    IsNone(past_key_values) \/ b.decoder_with_past.cls = "none"

\* the "Decode" part of forward, on the encoder's last_hidden_state
Decode(b, decoder_input_ids, hidden, mask, past_key_values, labels) ==
    IF use_decoder_without_past(b, past_key_values)
    THEN DecoderForward(b.decoder, "decoder",
            [input_ids |-> decoder_input_ids,
             encoder_hidden_states |-> hidden,
             encoder_attention_mask |-> mask,
             past_key_values |-> None,
             labels |-> labels])
    ELSE DecoderForward(b.decoder_with_past, "decoder_with_past",
            [input_ids |-> LastToken(decoder_input_ids),
             encoder_hidden_states |-> hidden,
             encoder_attention_mask |-> mask,
             past_key_values |-> past_key_values,
             labels |-> labels])

\* forward once the "Encode if needed" part is done: enc is the encoder call
\* it made, None when encoder_outputs was supplied
EncodedForward(b, kwargs, past_key_values, enc, mask) ==
    IF ~IsNone(enc) /\ The(enc).status # "ok" THEN StepFailed(The(enc))
    ELSE StepResult(enc,
            Decode(b, kwargs["decoder_input_ids"],
                   IF IsNone(enc) THEN kwargs["encoder_outputs"]
                   ELSE The(enc).out["last_hidden_state"],
                   mask, past_key_values, Arg(kwargs, "labels")))

\* a faulty forward that runs the encoder whether or not encoder_outputs came
Seq2SeqLM_forward_always_encoding(b, kwargs, past_key_values) ==
    EncodedForward(b, kwargs, past_key_values,
        Some(EncoderForward(b.encoder,
                            Restrict(kwargs, {"input_ids", "attention_mask"}))),
        Arg(kwargs, "attention_mask"))

\* ORTModelForSeq2SeqLM.forward
Seq2SeqLM_forward(b, kwargs, past_key_values) ==
    EncodedForward(b, kwargs, past_key_values,
        IF "encoder_outputs" \in DOMAIN kwargs THEN None
        ELSE Some(EncoderForward(b.encoder,
                                 Restrict(kwargs, {"input_ids", "attention_mask"}))),
        Arg(kwargs, "attention_mask"))

\* ORTModelForSpeechSeq2Seq.forward
SpeechSeq2Seq_forward(b, kwargs, past_key_values) ==
    EncodedForward(b, kwargs, past_key_values,
        IF "encoder_outputs" \in DOMAIN kwargs THEN None
        ELSE Some(EncoderForward(b.encoder, Restrict(kwargs, {"input_features"}))),
        None)

BundleForward(b, kwargs, past_key_values) ==
    IF b.cls = "ORTModelForSeq2SeqLM" THEN Seq2SeqLM_forward(b, kwargs, past_key_values)
    ELSE SpeechSeq2Seq_forward(b, kwargs, past_key_values)

\* a faulty reorder that re-indexes the cross-attention tensors as well
ReorderedLayer_all_four(layer_past, beam_idx) ==
    [j \in 1..Len(layer_past) |-> index_select(layer_past[j], beam_idx)]

\* layer_past[:2] re-indexed, layer_past[2:] kept
ReorderedLayer(layer_past, beam_idx) ==
    [j \in 1..(IF Len(layer_past) < 2 THEN Len(layer_past) ELSE 2) |->
        index_select(layer_past[j], beam_idx)]
    \o SubSeq(layer_past, 3, Len(layer_past))

\* ORTModelForSeq2SeqLM._reorder_cache / ORTModelForSpeechSeq2Seq._reorder_cache
reorder_cache(past, beam_idx) ==
    [l \in 1..Len(past) |-> ReorderedLayer(past[l], beam_idx)]

----------------------------------------------------------------------------
(* Device retargeting.                                                     *)

\* ORTModel.to: the device is assigned before the provider is validated
ORTModel_to(m, device) ==
    IF validate_provider_availability(get_provider_for_device(device))
    THEN [status |-> "ok",
          model |-> [m EXCEPT
                       !.device = device,
                       !.session = set_providers(m.session,
                                                 <<get_provider_for_device(device)>>),
                       !.providers =
                           set_providers(m.session,
                                         <<get_provider_for_device(device)>>).providers]]
    ELSE [status |-> "ProviderUnavailable", model |-> [m EXCEPT !.device = device]]

\* a faulty to() that assigns the device before it validates the provider
Bundle_to_assigning_first(b, device) ==
    IF validate_provider_availability(get_provider_for_device(device))
    THEN [status |-> "ok", bundle |-> ConditionalGeneration_to(b, device)]
    ELSE [status |-> "ProviderUnavailable", bundle |-> [b EXCEPT !.device = device]]

\* ORTModelForConditionalGeneration.to: the provider is validated first
Bundle_to(b, device) ==
    IF validate_provider_availability(get_provider_for_device(device))
    THEN [status |-> "ok", bundle |-> ConditionalGeneration_to(b, device)]
    ELSE [status |-> "ProviderUnavailable", bundle |-> b]

----------------------------------------------------------------------------
(* The generation loop (transformers GenerationMixin) as far as it drives  *)
(* this code: it runs get_encoder() once, then calls forward with what     *)
(* prepare_inputs_for_generation returns, feeding back the returned cache. *)

NoGen ==
    [active |-> FALSE, kwargs |-> EmptyMap, past |-> None, ids_len |-> 0,
     steps |-> 0, encoder_calls |-> 0]

\* prepare_inputs_for_generation of the two bundle classes: the keyword
\* arguments forward receives (entries that are None are left out)
prepare_inputs_for_generation(cls, input_ids, past, model_kwargs) ==
    [kwargs |-> ("decoder_input_ids" :> input_ids)
                @@ Restrict(model_kwargs,
                     IF cls = "ORTModelForSeq2SeqLM"
                     THEN {"encoder_outputs", "attention_mask"}
                     ELSE {"encoder_outputs"}),
     past_key_values |-> past]

----------------------------------------------------------------------------
(* State, inputs and actions.                                              *)

NoLast ==
    [op |-> "none", status |-> "none", calls |-> <<>>, kwargs |-> EmptyMap,
     past |-> None, out |-> EmptyMap, past_key_values |-> None, beam_idx |-> <<>>,
     req |-> [provider |-> "", use_io_binding |-> FALSE, device |-> ""],
     engine_args |-> <<>>]

\* the record of a construction or a to()
Requested(op, status, provider, use_io_binding, device) ==
    [NoLast EXCEPT !.op = op, !.status = status,
                   !.req = [provider |-> provider, use_io_binding |-> use_io_binding,
                            device |-> device]]

\* the record of an operation that opened or retargeted `n` sessions, each
\* with the arguments `args`
Configured(l, n, args) == [l EXCEPT !.engine_args = [i \in 1..n |-> args]]

\* the record of a forward of a standalone model
Forwarded(kwargs, call) ==
    [NoLast EXCEPT !.op = "forward", !.status = call.status, !.calls = <<call>>,
                   !.kwargs = kwargs, !.out = call.out]

\* the record of a forward of a bundle
Stepped(op, kwargs, past, r) ==
    [NoLast EXCEPT !.op = op, !.status = r.status, !.calls = r.calls,
                   !.kwargs = kwargs, !.past = past, !.out = r.out,
                   !.past_key_values = r.past_key_values]

\* inputs of a text / image task model
StandaloneKwargs(m, batch, seq, withTokenType) ==
    IF m.cls = "ORTModelForImageClassification"
    THEN ("pixel_values" :> CallerTensor("pixel_values", <<batch, 1, seq, seq>>, m.device))
    ELSE IF m.cls = "ORTModelForMultipleChoice"
    THEN ("input_ids" :> CallerTensor("input_ids", <<batch, seq, MaxSeq>>, m.device))
         @@ ("attention_mask" :>
                CallerTensor("attention_mask", <<batch, seq, MaxSeq>>, m.device))
         @@ (IF withTokenType
             THEN ("token_type_ids" :>
                     CallerTensor("token_type_ids", <<batch, seq, MaxSeq>>, m.device))
             ELSE EmptyMap)
    ELSE ("input_ids" :> CallerTensor("input_ids", <<batch, seq>>, m.device))
         @@ ("attention_mask" :> CallerTensor("attention_mask", <<batch, seq>>, m.device))
         @@ (IF withTokenType
             THEN ("token_type_ids" :>
                     CallerTensor("token_type_ids", <<batch, seq>>, m.device))
             ELSE EmptyMap)

\* encoder-side inputs of a bundle: token ids (and mask) or mel features
EncoderKwargs(b, batch, enc_len, withMask) ==
    IF b.cls = "ORTModelForSpeechSeq2Seq"
    THEN ("input_features" :>
            CallerTensor("input_features", <<batch, 1, 2 * enc_len>>, b.device))
    ELSE ("input_ids" :> CallerTensor("input_ids", <<batch, enc_len>>, b.device))
         @@ (IF withMask
             THEN ("attention_mask" :>
                     CallerTensor("attention_mask", <<batch, enc_len>>, b.device))
             ELSE EmptyMap)

DecoderIds(b, batch, len) == CallerTensor("decoder_input_ids", <<batch, len>>, b.device)

\* one cache tensor of a caller
CacheTensor(i, attn, kv, batch, len, device) ==
    CallerTensor(PastName(i, attn, kv),
                 <<batch, NumHeads, len, HiddenSize \div NumHeads>>, device)

\* a cache of a caller: `layers` layers of four tensors, the self-attention
\* pair past_len long and the cross-attention pair enc_len long
CacheOf(layers, batch, past_len, enc_len, device) ==
    [i \in 1..layers |->
        <<CacheTensor(i - 1, "decoder", "key", batch, past_len, device),
          CacheTensor(i - 1, "decoder", "value", batch, past_len, device),
          CacheTensor(i - 1, "encoder", "key", batch, enc_len, device),
          CacheTensor(i - 1, "encoder", "value", batch, enc_len, device)>>]

\* an encoder output a caller hands to a direct step of bundle b
CallerEncoderOutputs(b, batch, enc_len, withEnc) ==
    IF withEnc
    THEN ("encoder_outputs" :>
            CallerTensor("encoder_outputs", <<batch, enc_len, HiddenSize>>, b.device))
    ELSE EmptyMap

\* a cache a caller hands to a direct step of bundle b
CallerCache(b, batch, past_len, enc_len) ==
    CacheOf(Len(key_value_output_names(b.decoder)) \div num_pkv,
            batch, past_len, enc_len, b.device)

\* a cache of a caller that holds a single layer, whatever the bundle declares
\* (the cache of another model)
ShortCache(b, batch, past_len, enc_len) == CacheOf(1, batch, past_len, enc_len, b.device)

\* no forward call in flight: each of the two threads has made `n` calls, is
\* at event `pc` of the log of its running call (0 between calls), holds the
\* cache `past` its last call returned and, in order, the buffers `cache` that
\* cache is a view of, and has as locals the IOBinding and the output_buffers
\* of the running call; outputs, inputs and invoked are what was bound and
\* handed to the engine so far
NoFlight ==
    [thr |-> [t \in {1, 2} |->
                [n |-> 0, pc |-> 0, call |-> NoCall, past |-> None, cache |-> <<>>,
                 binding |-> None, buffers |-> EmptyMap, returned |-> EmptyMap]],
     outputs |-> {}, inputs |-> {}, invoked |-> {}]

\* no call is running: the caller is free to start an operation
Idle == last.op = "none"

Init ==
    /\ avail \in {{CPU}, {CPU, CUDA, TRT}}
    /\ model = NoModel
    /\ bundle = NoBundle
    /\ gen = NoGen
    /\ last = NoLast
    /\ flight = NoFlight

\* ORTModelForXxx.from_pretrained: load_model, then the class's __init__
Load(cls, provider, use_io_binding, declTokenType, provider_options) ==
    /\ Idle
    /\ IF validate_provider_availability(provider)
       THEN /\ model' = ORTModel_init(cls,
                            Session(cls, GraphInputs(cls, declTokenType), GraphOutputs(cls),
                                    load_model_providers(provider)),
                            use_io_binding)
            /\ bundle' = NoBundle
            /\ last' = Configured(Requested("load", "ok", provider, use_io_binding, ""), 1,
                                   InferenceSessionArgs(provider, provider_options))
       ELSE /\ last' = Requested("load", "ProviderUnavailable", provider,
                                 use_io_binding, "")
            /\ UNCHANGED <<model, bundle>>
    /\ UNCHANGED <<avail, gen, flight>>

\* the outcome of ORTModel.to(device)
Retargeted(device, r) ==
    /\ model' = r.model
    /\ last' = Configured(
                  Requested("to", r.status, get_provider_for_device(device), FALSE, device),
                  IF r.status = "ok" THEN 1 ELSE 0, SetProvidersArgs(device))

\* ORTModel.to(device)
To(device) ==
    /\ Idle
    /\ model.cls # "none"
    /\ Retargeted(device, ORTModel_to(model, device))
    /\ UNCHANGED <<avail, bundle, gen, flight>>

\* ORTModelForXxx.forward(**kwargs)
Forward(kwargs) ==
    /\ Idle
    /\ model.cls # "none"
    /\ last' = Forwarded(kwargs, StandaloneForward(model, kwargs))
    /\ UNCHANGED <<avail, model, bundle, gen, flight>>

\* the three sessions load_model opens, and the bundle built on them
BundleLoaded(cls, model_type, providers, use_io_binding, use_cache, layers, declMask) ==
    ConditionalGeneration_init(cls, model_type,
        Session(IF cls = "ORTModelForSpeechSeq2Seq" THEN "whisper-encoder" ELSE "encoder",
                EncoderInputs(cls, declMask), <<"last_hidden_state">>, providers),
        Session("decoder", DecoderInputs(declMask, FALSE, layers),
                DecoderOutputs(layers), providers),
        IF use_cache
        THEN Session("decoder_with_past", DecoderInputs(declMask, TRUE, layers),
                     DecoderOutputs(layers), providers)
        ELSE NoSession,
        use_io_binding)

\* ORTModelForSeq2SeqLM / ORTModelForSpeechSeq2Seq .from_pretrained
LoadBundle(cls, model_type, provider, use_io_binding, use_cache, layers, declMask, provider_options) ==
    /\ Idle
    /\ IF ~validate_provider_availability(provider)
       THEN /\ last' = Requested("load_bundle", "ProviderUnavailable", provider,
                                 use_io_binding, "")
            /\ UNCHANGED <<model, bundle>>
       ELSE IF initialize_encoder(cls, model_type) = "KeyError"
       THEN /\ last' = Configured(
                         Requested("load_bundle", "KeyError", provider, use_io_binding, ""),
                         IF use_cache THEN 3 ELSE 2,
                         InferenceSessionArgs(provider, provider_options))
            /\ UNCHANGED <<model, bundle>>
       ELSE /\ bundle' = BundleLoaded(cls, model_type, load_model_providers(provider),
                                      use_io_binding, use_cache, layers, declMask)
            /\ model' = NoModel
            /\ last' = Configured(
                         Requested("load_bundle", "ok", provider, use_io_binding, ""),
                         IF use_cache THEN 3 ELSE 2,
                         InferenceSessionArgs(provider, provider_options))
    /\ UNCHANGED <<avail, gen, flight>>

\* the outcome of ORTModelForConditionalGeneration.to(device)
BundleRetargeted(device, r) ==
    /\ bundle' = r.bundle
    /\ last' = Configured(
                  Requested("bundle_to", r.status, get_provider_for_device(device),
                            FALSE, device),
                  IF r.status # "ok" THEN 0
                  ELSE IF bundle.decoder_with_past.cls # "none" THEN 3 ELSE 2,
                  SetProvidersArgs(device))

\* ORTModelForConditionalGeneration.to(device)
BundleTo(device) ==
    /\ Idle
    /\ bundle.cls # "none"
    /\ BundleRetargeted(device, Bundle_to(bundle, device))
    /\ UNCHANGED <<avail, model, gen, flight>>

\* a direct call of the bundle's forward, outside generate(): the encoder
\* inputs and decoder_input_ids, with or without encoder_outputs, and no cache
\* or a cache of the caller's
Step(kwargs, past) ==
    /\ Idle
    /\ bundle.cls # "none"
    /\ last' = Stepped("step", kwargs, past, BundleForward(bundle, kwargs, past))
    /\ UNCHANGED <<avail, model, bundle, gen, flight>>

\* the model kwargs generate() keeps once the encoder ran
Encoded(inputs, enc) ==
    /\ last' = [NoLast EXCEPT !.op = "generate", !.status = enc.status,
                  !.calls = <<enc>>, !.kwargs = inputs, !.out = enc.out]
    /\ gen' = IF enc.status = "ok"
              THEN [active |-> TRUE,
                    kwargs |-> Restrict(inputs, {"attention_mask"})
                               @@ ("encoder_outputs" :> enc.out["last_hidden_state"]),
                    past |-> None, ids_len |-> 1, steps |-> 0, encoder_calls |-> 1]
              ELSE NoGen

\* generate(): the loop calls the encoder once through get_encoder() and keeps
\* its output in the model kwargs
GenBegin(inputs) ==
    /\ Idle
    /\ bundle.cls # "none"
    /\ Encoded(inputs, EncoderForward(bundle.encoder, inputs))
    /\ UNCHANGED <<avail, model, bundle, flight>>

\* number of encoder calls among the calls of a step
EncoderCalls(calls) == Cardinality({i \in 1..Len(calls) : calls[i].runner = "encoder"})

\* the model kwargs after one iteration: the returned cache is fed back and
\* the decoder ids grow by the token chosen
Generated(a, r) ==
    /\ last' = Stepped("gen_step", a.kwargs, a.past_key_values, r)
    /\ gen' = IF r.status = "ok"
              THEN [gen EXCEPT !.past = r.past_key_values,
                               !.ids_len = @ + 1,
                               !.steps = @ + 1,
                               !.encoder_calls = @ + EncoderCalls(r.calls)]
              ELSE NoGen

\* forward on what prepare_inputs_for_generation returned
GenForward(a) == Generated(a, BundleForward(bundle, a.kwargs, a.past_key_values))

\* one iteration of the generation loop
GenStep ==
    /\ bundle.cls # "none"
    /\ gen.active
    /\ gen.steps < MaxSteps
    /\ GenForward(prepare_inputs_for_generation(bundle.cls,
            DecoderIds(bundle, Size(gen.kwargs["encoder_outputs"], 0), gen.ids_len),
            gen.past, gen.kwargs))
    /\ UNCHANGED <<avail, model, bundle, flight>>

\* the running operation returns to the caller (generate() after any number
\* of iterations)
Return ==
    /\ ~Idle
    /\ last' = NoLast
    /\ gen' = NoGen
    /\ UNCHANGED <<avail, model, bundle, flight>>

Next ==
    \/ \E cls \in StandaloneClasses, provider \in Providers,
          use_io_binding \in BOOLEAN, declTokenType \in BOOLEAN,
          provider_options \in {None, Some("provider_options")} :
            Load(cls, provider, use_io_binding, declTokenType, provider_options)
    \/ \E device \in Devices : To(device)
    \/ \E batch \in {1, MaxBatch}, seq \in {1, MaxSeq}, withTokenType \in BOOLEAN :
            Forward(StandaloneKwargs(model, batch, seq, withTokenType))
    \/ \E cls \in BundleClasses, model_type \in {"t5", "whisper", "speech_to_text"},
          provider \in Providers, use_io_binding \in BOOLEAN, use_cache \in BOOLEAN,
          layers \in {1, MaxLayers}, declMask \in BOOLEAN,
          provider_options \in {None, Some("provider_options")} :
            /\ (cls = "ORTModelForSeq2SeqLM") <=> (model_type = "t5")
            /\ cls = "ORTModelForSpeechSeq2Seq" => ~declMask
            /\ LoadBundle(cls, model_type, provider, use_io_binding, use_cache,
                          layers, declMask, provider_options)
    \/ \E device \in Devices : BundleTo(device)
    \/ \E batch \in {1, MaxBatch}, enc_len \in {1, MaxSeq}, len \in {1, MaxSeq},
          withMask \in BOOLEAN, withPast \in BOOLEAN, withEnc \in BOOLEAN,
          short \in BOOLEAN :
            /\ short => withPast
            /\ Step(EncoderKwargs(bundle, batch, enc_len, withMask)
                    @@ ("decoder_input_ids" :> DecoderIds(bundle, batch, len))
                    @@ CallerEncoderOutputs(bundle, batch, enc_len, withEnc),
                    IF ~withPast THEN None
                    ELSE IF short THEN Some(ShortCache(bundle, batch, len, enc_len))
                    ELSE Some(CallerCache(bundle, batch, len, enc_len)))
    \/ \E batch \in {1, MaxBatch}, enc_len \in {1, MaxSeq}, withMask \in BOOLEAN :
            GenBegin(EncoderKwargs(bundle, batch, enc_len, withMask))
    \/ GenStep
    \/ Return

Spec == Init /\ [][Next]_vars

----------------------------------------------------------------------------
(* _reorder_cache on its own: a beam search re-indexes a cache again and   *)
(* again.                                                                  *)

InitReorder ==
    /\ avail = Providers
    /\ flight = NoFlight
    /\ model = NoModel
    /\ bundle = NoBundle
    /\ last = NoLast
    /\ \E layers \in 1..MaxLayers, batch \in 1..MaxBatch, past_len \in {1, MaxSeq},
          enc_len \in {1, MaxSeq}, device \in Devices :
            gen = [NoGen EXCEPT
                     !.past = Some(CacheOf(layers, batch, past_len, enc_len, device))]

\* the cache held, re-indexed by beam_idx
Reorder(beam_idx) ==
    /\ ~IsNone(gen.past)
    /\ last' = [NoLast EXCEPT !.op = "reorder", !.status = "ok", !.past = gen.past,
                  !.beam_idx = beam_idx,
                  !.past_key_values = Some(reorder_cache(The(gen.past), beam_idx))]
    /\ gen' = [gen EXCEPT !.past = Some(reorder_cache(The(gen.past), beam_idx))]
    /\ UNCHANGED <<avail, model, bundle, flight>>

\* beam indices: one per row of the cache, each naming a row of it
BeamIndices(past) ==
    [1..Size(past[1][1], 0) -> 1..Size(past[1][1], 0)]

NextReorder == \E beam_idx \in BeamIndices(The(gen.past)) : Reorder(beam_idx)

SpecReorder == InitReorder /\ [][NextReorder]_vars

----------------------------------------------------------------------------
(* Two threads calling forward on the same bundle, on the bound path: each *)
(* call runs the events of ORTDecoder.forward one at a time, interleaved   *)
(* with the other thread's.  Objects have an identity: the thread and call *)
(* that created them.                                                      *)

\* a faulty allocation that keeps one buffer per output name on the runner
Allocated_per_name(t, n, name) == [thread |-> 0, call |-> 0, name |-> name]

\* torch.empty(...) in prepare_output_buffer: a new buffer
Allocated(t, n, name) == [thread |-> t, call |-> n, name |-> name]

\* self.session.io_binding(): a new IOBinding
NewBinding(t, n) == [thread |-> t, call |-> n]

InitThreads ==
    /\ avail = Providers
    /\ model = NoModel
    /\ gen = NoGen
    /\ last = NoLast
    /\ flight = NoFlight
    /\ \E cls \in BundleClasses, declMask \in BOOLEAN :
          /\ cls = "ORTModelForSpeechSeq2Seq" => ~declMask
          /\ bundle = BundleLoaded(cls,
                          IF cls = "ORTModelForSpeechSeq2Seq" THEN "whisper" ELSE "t5",
                          load_model_providers(CUDA), TRUE, TRUE, 1, declMask)

\* thread t calls forward(decoder_input_ids, encoder_outputs, past_key_values)
\* with the cache its last call returned
Begin(t) ==
    LET th == flight.thr[t]
        r == BundleForward(bundle,
                 ("decoder_input_ids" :> DecoderIds(bundle, 1, th.n + 1))
                 @@ (IF bundle.encoder.cls = "ORTEncoder" /\
                        "attention_mask" \in Range(bundle.encoder.session.inputs)
                     THEN ("attention_mask" :>
                             CallerTensor("attention_mask", <<1, 1>>, bundle.device))
                     ELSE EmptyMap)
                 @@ CallerEncoderOutputs(bundle, 1, 1, TRUE),
                 th.past)
    IN  /\ th.pc = 0
        /\ th.n < MaxSteps
        /\ r.status = "ok"
        /\ flight' = [flight EXCEPT !.thr[t].pc = 1,
                                    !.thr[t].call = r.calls[Len(r.calls)]]
        /\ UNCHANGED <<avail, model, bundle, gen, last>>

\* thread t runs the next event of its call: io_binding() creates the
\* binding, torch.empty a buffer kept in output_buffers, bind_input and
\* bind_output bind a tensor to the binding, run_with_iobinding hands the
\* binding to the engine, view reads a buffer for the result
ThreadStep(t) ==
    LET th == flight.thr[t]
        e == th.call.log[th.pc]
        names == key_value_input_names(bundle.decoder_with_past)
        bound == [binding |-> The(th.binding), call |-> <<t, th.n>>]
    IN  /\ th.pc \in 1..Len(th.call.log)
        /\ flight' =
              [flight EXCEPT
                 !.thr[t].pc = @ + 1,
                 !.thr[t].binding =
                     IF e.ev = "io_binding" THEN Some(NewBinding(t, th.n)) ELSE @,
                 !.thr[t].buffers =
                     IF e.ev = "empty"
                     THEN [x \in DOMAIN @ \cup {e.name} |->
                             IF x = e.name THEN Allocated(t, th.n, e.name) ELSE @[x]]
                     ELSE @,
                 !.thr[t].returned =
                     IF e.ev = "view"
                     THEN [x \in DOMAIN @ \cup {e.name} |->
                             IF x = e.name THEN th.buffers[e.name] ELSE @[x]]
                     ELSE @,
                 !.outputs =
                     IF e.ev = "bind_output"
                     THEN @ \cup {[buffer |-> th.buffers[e.name], binding |-> bound.binding,
                                   call |-> bound.call]}
                     ELSE @,
                 !.inputs =
                     IF e.ev = "bind_input" /\ e.name \in Range(names)
                     THEN @ \cup {[buffer |->
                                     th.cache[CHOOSE i \in 1..Len(names) : names[i] = e.name],
                                   binding |-> bound.binding, call |-> bound.call]}
                     ELSE @,
                 !.invoked =
                     IF e.ev = "run_with_iobinding" THEN @ \cup {bound} ELSE @]
        /\ UNCHANGED <<avail, model, bundle, gen, last>>

\* forward returns on thread t: the caller keeps the cache, views of the
\* buffers in the order of key_value_output_names; the locals are gone
End(t) ==
    LET th == flight.thr[t]
        names == key_value_output_names(bundle.decoder)
    IN  /\ th.pc = Len(th.call.log) + 1
        /\ flight' =
              [flight EXCEPT
                 !.thr[t] = [n |-> th.n + 1, pc |-> 0, call |-> NoCall,
                             past |-> Some(th.call.past_key_values),
                             cache |-> [i \in 1..Len(names) |-> th.returned[names[i]]],
                             binding |-> None, buffers |-> EmptyMap,
                             returned |-> EmptyMap]]
        /\ UNCHANGED <<avail, model, bundle, gen, last>>

NextThreads ==
    \/ \E t \in DOMAIN flight.thr : Begin(t)
    \/ \E t \in DOMAIN flight.thr : ThreadStep(t)
    \/ \E t \in DOMAIN flight.thr : End(t)

SpecThreads == InitThreads /\ [][NextThreads]_vars

----------------------------------------------------------------------------
(* The output-buffer planning on its own: prepare_output_buffer,           *)
(* prepare_logits_buffer and the output half of prepare_io_binding are     *)
(* functions of the runner and of the sizes of the tensors handed in; they *)
(* are applied here, once to each runner, to every size from 0 up, odd     *)
(* feature lengths included.                                               *)

\* the outputs of a decoder graph, with a loss when it was exported with labels
PlanDecoderOutputs(layers, declLoss) ==
    <<"logits">> \o (IF declLoss THEN <<"loss">> ELSE <<>>)
    \o AllLayerNames("present", 0, layers)

\* a bundle on cuda with I/O binding, over graphs of `layers` layers
PlanBundle(cls, layers, use_cache, declLoss) ==
    ConditionalGeneration_init(cls,
        IF cls = "ORTModelForSpeechSeq2Seq" THEN "whisper" ELSE "t5",
        Session(IF cls = "ORTModelForSpeechSeq2Seq" THEN "whisper-encoder" ELSE "encoder",
                EncoderInputs(cls, FALSE), <<"last_hidden_state">>, <<CUDA>>),
        Session("decoder", DecoderInputs(FALSE, FALSE, layers),
                PlanDecoderOutputs(layers, declLoss), <<CUDA>>),
        IF use_cache
        THEN Session("decoder_with_past", DecoderInputs(FALSE, TRUE, layers),
                     PlanDecoderOutputs(layers, declLoss), <<CUDA>>)
        ELSE NoSession,
        TRUE)

InitPlan ==
    /\ avail = Providers
    /\ flight = NoFlight
    /\ gen = NoGen
    /\ last = NoLast
    /\ \/ /\ bundle = NoBundle
          /\ \E cls \in StandaloneClasses \ {"ORTModelForCustomTasks"} :
                model = ORTModel_init(cls,
                            Session(cls, GraphInputs(cls, FALSE), GraphOutputs(cls),
                                    <<CUDA>>),
                            TRUE)
       \/ /\ model = NoModel
          /\ \E cls \in BundleClasses, layers \in 1..MaxLayers, use_cache \in BOOLEAN,
                declLoss \in BOOLEAN :
                bundle = PlanBundle(cls, layers, use_cache, declLoss)

\* what prepare_io_binding returns for the outputs: output_buffers and
\* output_shapes
PlannedCall(runner, plans) ==
    [NoCall EXCEPT !.runner = runner, !.path = "bound", !.status = "ok",
                   !.plans = plans,
                   !.shapes = [n \in {p.name : p \in Range(plans)} |->
                                 PlanOf(plans, n).view]]

\* the record of a planning
PlannedFor(kwargs, past, call) ==
    [NoLast EXCEPT !.op = "plan", !.status = "ok", !.kwargs = kwargs, !.past = past,
                   !.calls = <<call>>]

\* the output buffers the prepare_io_binding of a task model plans for args
PlanStandalone(args) ==
    /\ Idle
    /\ model.cls # "none"
    /\ last' = PlannedFor(args, None,
                          PlannedCall("model", StandaloneOutputPlans(model, args)))
    /\ UNCHANGED <<avail, model, bundle, gen, flight>>

\* the output buffer the prepare_io_binding of the encoder plans for args
PlanEncoder(args) ==
    /\ Idle
    /\ bundle.cls # "none"
    /\ last' = PlannedFor(args, None,
                  PlannedCall("encoder",
                      IF bundle.encoder.cls = "ORTEncoderForWhisper"
                      THEN WhisperEncoderOutputPlans(bundle.encoder, args)
                      ELSE EncoderOutputPlans(bundle.encoder, args)))
    /\ UNCHANGED <<avail, model, bundle, gen, flight>>

\* the output buffers ORTDecoder.prepare_io_binding plans: the decoder without
\* a cache, the decoder with past on the flattened cache
PlanDecoder(input_ids, encoder_hidden_states, past) ==
    /\ Idle
    /\ bundle.cls # "none"
    /\ IsNone(past) \/ bundle.decoder_with_past.cls # "none"
    /\ last' = PlannedFor(("input_ids" :> input_ids)
                          @@ ("encoder_hidden_states" :> encoder_hidden_states),
                          past,
                  IF IsNone(past)
                  THEN PlannedCall("decoder",
                          DecoderOutputPlans(bundle.decoder,
                              [input_ids |-> input_ids,
                               encoder_hidden_states |-> encoder_hidden_states],
                              None))
                  ELSE PlannedCall("decoder_with_past",
                          DecoderOutputPlans(bundle.decoder_with_past,
                              [input_ids |-> input_ids,
                               encoder_hidden_states |-> encoder_hidden_states],
                              Some(Flatten(The(past))))))
    /\ UNCHANGED <<avail, model, bundle, gen, flight>>

\* the encoder-side tensor of a planning: token ids, or mel features of any
\* length
PlanEncoderKwargs(b, batch, len) ==
    IF b.cls = "ORTModelForSpeechSeq2Seq"
    THEN ("input_features" :> CallerTensor("input_features", <<batch, 1, len>>, b.device))
    ELSE ("input_ids" :> CallerTensor("input_ids", <<batch, len>>, b.device))

NextPlan ==
    \/ \E batch \in 0..MaxBatch, seq \in 0..MaxSeq :
            PlanStandalone(StandaloneKwargs(model, batch, seq, FALSE))
    \/ \E batch \in 0..MaxBatch, len \in 0..(2 * MaxSeq + 1) :
            PlanEncoder(PlanEncoderKwargs(bundle, batch, len))
    \/ \E batch \in 0..MaxBatch, seq \in 0..MaxSeq, enc_len \in 0..MaxSeq,
          past_len \in 0..MaxSeq, withPast \in BOOLEAN :
            PlanDecoder(DecoderIds(bundle, batch, seq),
                        CallerTensor("encoder_outputs", <<batch, enc_len, HiddenSize>>,
                                     bundle.device),
                        IF withPast
                        THEN Some(CallerCache(bundle, batch, past_len, enc_len))
                        ELSE None)

SpecPlan == InitPlan /\ [][NextPlan]_vars

----------------------------------------------------------------------------
(* Properties.                                                             *)

\* the last operation was a forward of the bundle
IsStep == last.op \in {"step", "gen_step"}

\* the runner object a call of the last operation ran on
RunnerOf(name) ==
    CASE name = "model" -> model
      [] name = "encoder" -> bundle.encoder
      [] name = "decoder" -> bundle.decoder
      [] OTHER -> bundle.decoder_with_past

\* the calls of the last operation made on runner `name`
CallsBy(name) == {i \in 1..Len(last.calls) : last.calls[i].runner = name}

\* positions of the events of the given kinds in a call's log
EventsOf(call, kinds) == {k \in 1..Len(call.log) : call.log[k].ev \in kinds}

\* number of engine invocations of a call
Invocations(call) == Cardinality(EventsOf(call, {"run", "run_with_iobinding"}))

\* the cache names a graph declares, layer by layer
PastNames == [l \in 1..(MaxLayers + 1) |-> LayerNames("past_key_values", l - 1)]
PresentNames == [l \in 1..(MaxLayers + 1) |-> LayerNames("present", l - 1)]

ColdCall(c, ids) ==
    /\ Invocations(c) <= 1
    /\ DOMAIN c.fed \cap KeyValueNames = {}
    /\ "input_ids" \in DOMAIN c.fed => c.fed["input_ids"] = Val(ids)
    /\ c.status = "ok" => Invocations(c) = 1 /\ "input_ids" \in DOMAIN c.fed

\* C1: a forward of the bundle with no past cache, or on a bundle that has no
\* decoder-with-past session whatever cache is supplied, never calls the
\* decoder with past and calls the decoder exactly once when the encoder part
\* went through; that call invokes the cache-less graph at most once, exactly
\* once when the step completes, on the whole of decoder_input_ids and on no
\* cache input.
C1_ColdStepRunsDecoderOnce ==
    (IsStep /\ (IsNone(last.past) \/ bundle.decoder_with_past.cls = "none")) =>
        /\ CallsBy("decoder_with_past") = {}
        /\ Cardinality(CallsBy("decoder")) <= 1
        /\ \A i \in CallsBy("decoder") :
              /\ ColdCall(last.calls[i], last.kwargs["decoder_input_ids"])
              /\ last.calls[i].status = last.status
        /\ last.status = "ok" => Cardinality(CallsBy("decoder")) = 1

\* a completed step that was handed a cache on a bundle without decoder-with-past
C1_Witness ==
    /\ IsStep
    /\ ~IsNone(last.past)
    /\ bundle.decoder_with_past.cls = "none"
    /\ last.status = "ok"
    /\ Size(last.kwargs["decoder_input_ids"], 1) > 1
    /\ \E i \in CallsBy("decoder") : Invocations(last.calls[i]) = 1

WarmCall(c, ids, past) ==
    /\ Invocations(c) <= 1
    /\ "input_ids" \in DOMAIN c.fed =>
          /\ c.fed["input_ids"] = Val(LastToken(ids))
          /\ c.fed["input_ids"].shape = <<Size(ids, 0), 1>>
    /\ \A n \in DOMAIN c.fed \cap KeyValueNames :
          \E l \in 1..Len(past), j \in 1..num_pkv :
              n = PastNames[l][j] /\ c.fed[n] = Val(past[l][j])
    /\ c.status = "ok" =>
          /\ Invocations(c) = 1
          /\ "input_ids" \in DOMAIN c.fed
          /\ \A l \in 1..Len(past), j \in 1..num_pkv : PastNames[l][j] \in DOMAIN c.fed
          /\ last.past_key_values = Some(c.past_key_values)
          /\ \A l \in 1..Len(c.past_key_values) :
                \A j \in 1..Len(c.past_key_values[l]) :
                    /\ c.past_key_values[l][j].v.g = "decoder_with_past"
                    /\ c.past_key_values[l][j].v.feed
                          = [n \in DOMAIN c.fed |-> Key(c.fed[n])]

\* C2: a forward of the bundle with a past cache on a bundle that has a
\* decoder-with-past session never calls the decoder and calls the decoder with
\* past exactly once when the encoder part went through; that call invokes the
\* cache-aware graph once on decoder_input_ids[:, -1:], of length 1 along the
\* sequence axis, and on every tensor of the supplied cache, and the step
\* returns the cache this invocation produced.
C2_WarmStepRunsDecoderWithPast ==
    (IsStep /\ ~IsNone(last.past) /\ bundle.decoder_with_past.cls # "none") =>
        /\ CallsBy("decoder") = {}
        /\ Cardinality(CallsBy("decoder_with_past")) <= 1
        /\ \A i \in CallsBy("decoder_with_past") :
              /\ WarmCall(last.calls[i], last.kwargs["decoder_input_ids"], The(last.past))
              /\ last.calls[i].status = last.status
        /\ last.status = "ok" => Cardinality(CallsBy("decoder_with_past")) = 1

\* a completed iteration of generate() on the cache of the iteration before,
\* with more than one token in decoder_input_ids
C2_Witness ==
    /\ last.op = "gen_step"
    /\ ~IsNone(last.past)
    /\ bundle.decoder_with_past.cls # "none"
    /\ last.status = "ok"
    /\ Size(last.kwargs["decoder_input_ids"], 1) > 1
    /\ \E i \in CallsBy("decoder_with_past") : Invocations(last.calls[i]) = 1

\* the encoder calls of a forward, and what its decoder call was fed as
\* encoder_hidden_states
EncodesIfNeeded ==
    /\ Cardinality(CallsBy("encoder")) <= 1
    /\ (CallsBy("encoder") = {}) <=> ("encoder_outputs" \in DOMAIN last.kwargs)
    /\ "encoder_outputs" \in DOMAIN last.kwargs =>
          \A i \in CallsBy("decoder") \cup CallsBy("decoder_with_past") :
              "encoder_hidden_states" \in DOMAIN last.calls[i].fed =>
                  last.calls[i].fed["encoder_hidden_states"]
                      = Val(last.kwargs["encoder_outputs"])

\* one generation episode: the encoder ran once, every iteration is handed its
\* output
OneEncoderCallPerEpisode ==
    /\ gen.encoder_calls <= 1
    /\ last.op = "gen_step" =>
          /\ CallsBy("encoder") = {}
          /\ "encoder_outputs" \in DOMAIN last.kwargs
          /\ last.kwargs["encoder_outputs"].v.g \in {"encoder", "whisper-encoder"}
          /\ gen.active => last.kwargs["encoder_outputs"] = gen.kwargs["encoder_outputs"]

\* the encoder output a running episode keeps does not change
EncoderOutputKept ==
    (gen.active /\ gen'.active) =>
        gen'.kwargs["encoder_outputs"] = gen.kwargs["encoder_outputs"]

\* C3: a forward of the bundle calls the encoder only when no encoder_outputs
\* is supplied, and then once; a supplied encoder_outputs is handed unmodified
\* to the decoder graph that runs; in a generation episode the encoder runs
\* once, before the first iteration, and every iteration is handed the same
\* encoder output.
C3_EncoderOncePerEpisode ==
    /\ [](IsStep => EncodesIfNeeded)
    /\ []OneEncoderCallPerEpisode
    /\ [][EncoderOutputKept]_vars

\* the third iteration of an episode completed
C3_Witness ==
    /\ last.op = "gen_step"
    /\ last.status = "ok"
    /\ gen.active
    /\ gen.steps >= 3
    /\ gen.encoder_calls = 1
    /\ \E i \in CallsBy("decoder") \cup CallsBy("decoder_with_past") :
          last.calls[i].fed["encoder_hidden_states"] = Val(gen.kwargs["encoder_outputs"])

\* the cache of a decoder call, against the key/value outputs in declared order
CacheRegrouped(c, names) ==
    /\ Len(names) = num_pkv * Len(c.past_key_values)
    /\ Len(c.past_key_values) >= 1
    /\ \A l \in 1..Len(c.past_key_values) :
          /\ Len(c.past_key_values[l]) = num_pkv
          /\ \A j \in 1..num_pkv :
                /\ c.past_key_values[l][j] = c.out[names[num_pkv * (l - 1) + j]]
                /\ names[num_pkv * (l - 1) + j] = PresentNames[l][j]

RoundTrip(past) == Regroup(Flatten(past)) = past

\* C4: the cache ORTDecoder.forward returns, on either path, has one 4-tuple
\* per layer and element j of layer i is the output declared at position
\* 4*i+j of the key/value outputs (self key, self value, cross key, cross
\* value); flattening a per-layer cache and regrouping it gives the cache back.
C4_CacheRegroupedPerLayer ==
    /\ \A i \in CallsBy("decoder") \cup CallsBy("decoder_with_past") :
          last.calls[i].status = "ok" =>
              /\ CacheRegrouped(last.calls[i],
                                key_value_output_names(RunnerOf(last.calls[i].runner)))
              /\ RoundTrip(last.calls[i].past_key_values)
    /\ (IsStep /\ ~IsNone(last.past)) => RoundTrip(The(last.past))

\* a bound and a fallback decoder call returned a cache of several layers
C4_Witness ==
    /\ IsStep
    /\ ~IsNone(last.past)
    /\ Len(The(last.past)) >= 2
    /\ \E i \in CallsBy("decoder_with_past") :
          /\ last.calls[i].status = "ok"
          /\ Len(last.calls[i].past_key_values) >= 2

IsPermutation(idx) == \A b \in 1..Len(idx) : \E k \in 1..Len(idx) : idx[k] = b

Reindexed(t, r, idx) ==
    /\ r.v = t.v
    /\ r.device = t.device
    /\ r.shape = t.shape
    /\ Len(r.rows) = Len(idx)
    /\ \A b \in 1..Len(idx) : r.rows[b] = t.rows[idx[b]]

ReorderedBy(past, result, idx) ==
    /\ Len(result) = Len(past)
    /\ \A l \in 1..Len(past) :
          /\ Len(result[l]) = Len(past[l])
          /\ Reindexed(past[l][1], result[l][1], idx)
          /\ Reindexed(past[l][2], result[l][2], idx)
          /\ result[l][3] = past[l][3]
          /\ result[l][4] = past[l][4]

\* C5: _reorder_cache(past, beam_idx) with beam_idx a permutation of the batch
\* rows returns as many layers and as many tensors per layer as past; row b of
\* the two self-attention tensors of every layer is row beam_idx[b] of the
\* input, and the two cross-attention tensors are the input's.
C5_ReorderCache ==
    (last.op = "reorder" /\ IsPermutation(last.beam_idx)) =>
        ReorderedBy(The(last.past), The(last.past_key_values), last.beam_idx)

\* a cache of several layers re-indexed by a permutation that moves rows
C5_Witness ==
    /\ last.op = "reorder"
    /\ IsPermutation(last.beam_idx)
    /\ Len(last.beam_idx) >= 2
    /\ last.beam_idx[1] # 1
    /\ Len(The(last.past)) >= 2
    /\ The(last.past_key_values)[1][1].rows # The(last.past)[1][1].rows

Bindings == {"io_binding", "bind_input", "bind_output", "get_output_type", "empty"}
Reads == {"view", "get_outputs"}

BoundOrder(c) ==
    /\ \A k \in EventsOf(c, {"synchronize_inputs"}), j \in EventsOf(c, Bindings) : j < k
    /\ \A k \in EventsOf(c, {"run_with_iobinding"}) :
          \E j \in EventsOf(c, {"synchronize_inputs"}) : j < k
    /\ \A k \in EventsOf(c, {"synchronize_outputs"}) :
          \E j \in EventsOf(c, {"run_with_iobinding"}) : j < k
    /\ \A k \in EventsOf(c, Reads) :
          \E j \in EventsOf(c, {"synchronize_outputs"}) : j < k
    /\ EventsOf(c, {"run"}) = {}
    /\ \A n \in DOMAIN c.fed : \E k \in EventsOf(c, {"bind_input"}) : c.log[k].name = n
    /\ c.status # "ok" => DOMAIN c.out = {}
    /\ c.status = "ok" =>
          /\ Cardinality(EventsOf(c, {"synchronize_inputs"})) = 1
          /\ Cardinality(EventsOf(c, {"run_with_iobinding"})) = 1
          /\ Cardinality(EventsOf(c, {"synchronize_outputs"})) = 1
          /\ DOMAIN c.out # {}
          /\ \A n \in DOMAIN c.out :
                /\ \E k \in EventsOf(c, {"bind_output"}) : c.log[k].name = n
                /\ \E k \in EventsOf(c, {"view"}) : c.log[k].name = n

\* C6: a forward on the bound path makes every input and output binding, then
\* synchronize_inputs, then run_with_iobinding, then synchronize_outputs, and
\* reads an output buffer only after synchronize_outputs; every tensor it
\* returns was bound and is read after that barrier.
C6_BoundPathOrder ==
    \A i \in 1..Len(last.calls) :
        last.calls[i].path = "bound" => BoundOrder(last.calls[i])

\* a bound decoder-with-past call of several layers completed
C6_Witness ==
    /\ IsStep
    /\ \E i \in CallsBy("decoder_with_past") :
          /\ last.calls[i].path = "bound"
          /\ last.calls[i].status = "ok"
          /\ Cardinality(EventsOf(last.calls[i], {"view"})) > num_pkv + 1

\* the three conditions of the I/O-binding path for a runner
BindingEnabled(r) ==
    /\ r.device = "cuda"
    /\ r.use_io_binding
    /\ TRT \notin Range(r.session.providers)

IsCustomTasksCall(c) == c.runner = "model" /\ model.cls = "ORTModelForCustomTasks"

\* C7: every forward of a task model other than ORTModelForCustomTasks, of an
\* encoder or of a decoder takes the I/O-binding path if and only if the
\* runner's device is cuda, its use_io_binding is set and its session does not
\* run on TensorrtExecutionProvider, and the fallback path otherwise;
\* ORTModelForCustomTasks.forward always takes the fallback path.
C7_PathSelection ==
    \A i \in 1..Len(last.calls) :
        /\ last.calls[i].path \in {"bound", "fallback"}
        /\ IF IsCustomTasksCall(last.calls[i])
           THEN last.calls[i].path = "fallback"
           ELSE (last.calls[i].path = "bound")
                    <=> BindingEnabled(RunnerOf(last.calls[i].runner))

\* C7 as the specification states it: every forward, of every task model,
\* takes the I/O-binding path if and only if the three conditions hold.
C7_PathSelectionOfEveryRunner ==
    \A i \in 1..Len(last.calls) :
        (last.calls[i].path = "bound") <=> BindingEnabled(RunnerOf(last.calls[i].runner))

\* an ORTModelForCustomTasks on cuda with use_io_binding set ran a forward
C7_Witness ==
    /\ last.op = "forward"
    /\ model.cls = "ORTModelForCustomTasks"
    /\ BindingEnabled(model)
    /\ last.calls[1].path = "fallback"
    /\ last.calls[1].status = "ok"

FlagOf(r) == r.cls # "none" => r.use_io_binding = bundle.use_io_binding

\* C8: a model whose providers hold TensorrtExecutionProvider has
\* use_io_binding False, whatever was requested at construction and after any
\* retargets, and the encoder, the decoder and the decoder with past of a
\* bundle carry the bundle's flag.
C8_TensorrtDisablesBinding ==
    /\ TRT \in Range(model.providers) => ~model.use_io_binding
    /\ TRT \in Range(model.session.providers) => ~model.use_io_binding
    /\ TRT \in Range(bundle.providers) => ~bundle.use_io_binding
    /\ \A r \in {bundle.encoder, bundle.decoder, bundle.decoder_with_past} :
          /\ FlagOf(r)
          /\ TRT \in Range(r.session.providers) => ~r.use_io_binding
    /\ (last.op = "load" /\ last.status = "ok" /\ last.req.provider = TRT) =>
          ~model.use_io_binding
    /\ (last.op = "load_bundle" /\ last.status = "ok" /\ last.req.provider = TRT) =>
          ~bundle.use_io_binding

\* a bundle with a decoder with past was built on TensorrtExecutionProvider
\* with use_io_binding=True requested
C8_Witness ==
    /\ last.op = "load_bundle"
    /\ last.status = "ok"
    /\ last.req.provider = TRT
    /\ last.req.use_io_binding
    /\ TRT \in Range(bundle.providers)
    /\ bundle.decoder_with_past.cls # "none"
    /\ ~bundle.decoder_with_past.use_io_binding

\* what the engine and the caller see of a call, whatever the path: the feed
\* the engine was invoked on (None when the call ended before), the named
\* outputs and the cache with their values and shapes
ValuesOf(layer) == [j \in 1..Len(layer) |-> Val(layer[j])]

Observed(c) ==
    [runner |-> c.runner,
     handed |-> IF Invocations(c) > 0 THEN Some(c.fed) ELSE None,
     out |-> [n \in DOMAIN c.out |-> Val(c.out[n])],
     past_key_values |->
         [l \in 1..Len(c.past_key_values) |-> ValuesOf(c.past_key_values[l])]]

ObservedCalls(calls) == [i \in 1..Len(calls) |-> Observed(calls[i])]

\* a runner put on cuda with the flag given: bound path when set, fallback when not
OnPath(r, flag) ==
    IF r.cls = "none" THEN r ELSE [r EXCEPT !.device = "cuda", !.use_io_binding = flag]

BundleOnPath(b, flag) ==
    [b EXCEPT !.encoder = OnPath(b.encoder, flag),
              !.decoder = OnPath(b.decoder, flag),
              !.decoder_with_past = OnPath(b.decoder_with_past, flag)]

SameOnBothPaths(bound, fallback, done) ==
    /\ bound = fallback
    /\ done = bound

\* the two paths of the last operation, on its inputs
PathsAgree ==
    /\ (last.op = "forward" /\ model.cls # "ORTModelForCustomTasks") =>
          SameOnBothPaths(Observed(StandaloneBound(model, last.kwargs)),
                          Observed(StandaloneFallback(model, last.kwargs)),
                          Observed(last.calls[1]))
    /\ last.op = "generate" =>
          SameOnBothPaths(Observed(EncoderForward(OnPath(bundle.encoder, TRUE), last.kwargs)),
                          Observed(EncoderForward(OnPath(bundle.encoder, FALSE), last.kwargs)),
                          Observed(last.calls[1]))
    /\ IsStep =>
          SameOnBothPaths(
              ObservedCalls(BundleForward(BundleOnPath(bundle, TRUE),
                                          last.kwargs, last.past).calls),
              ObservedCalls(BundleForward(BundleOnPath(bundle, FALSE),
                                          last.kwargs, last.past).calls),
              ObservedCalls(last.calls))

\* C9: on the same inputs the bound path and the fallback path of every runner
\* hand the engine the same names with the same values and return the same
\* named outputs and the same per-layer cache, with the same values and
\* shapes.
C9_BoundAndFallbackAgree == PathsAgree

\* the inputs of the last operation name no input the session does not declare
OnlyDeclaredInputs ==
    last.op = "forward" => DOMAIN last.kwargs \subseteq Range(model.session.inputs)

\* the two paths agree on every input that names declared inputs only
C9_AgreeOnDeclaredInputs == OnlyDeclaredInputs => PathsAgree

\* a completed step on the bound path that was handed a cache of several layers
C9_Witness ==
    /\ IsStep
    /\ last.status = "ok"
    /\ ~IsNone(last.past)
    /\ \E i \in CallsBy("decoder_with_past") :
          /\ last.calls[i].path = "bound"
          /\ Len(last.calls[i].past_key_values) >= 2
    /\ \E i \in CallsBy("encoder") : last.calls[i].path = "bound"

NamesOf(c, kinds) == {c.log[k].name : k \in EventsOf(c, kinds)}

\* C10: on either path a runner binds, or hands to the engine, only names the
\* session declares: inputs among the declared inputs, outputs among the
\* declared outputs.
C10_OnlyDeclaredNames ==
    \A i \in 1..Len(last.calls) :
        /\ DOMAIN last.calls[i].fed
              \subseteq Range(RunnerOf(last.calls[i].runner).session.inputs)
        /\ NamesOf(last.calls[i], {"bind_input"})
              \subseteq Range(RunnerOf(last.calls[i].runner).session.inputs)
        /\ NamesOf(last.calls[i], {"bind_output"})
              \subseteq Range(RunnerOf(last.calls[i].runner).session.outputs)

\* the optional inputs a caller left out of the running call: token_type_ids
\* and attention_mask (the decoder's encoder_attention_mask is the caller's
\* attention_mask); ORTModelForCustomTasks has no optional input
OmittedOptional ==
    IF /\ last.op \in {"forward", "step", "gen_step", "generate"}
       /\ ~(last.op = "forward" /\ model.cls = "ORTModelForCustomTasks")
    THEN {"token_type_ids", "attention_mask"} \ DOMAIN last.kwargs
    ELSE {}

\* the names under which a runner feeds the caller's input `name`
FedAs(name) == IF name = "attention_mask" THEN {name, "encoder_attention_mask"} ELSE {name}

\* C11: a call in which the caller left out an optional input does not fail
\* inside this layer, whether or not the session declares the name, and the
\* input is left out of what is bound or handed to the engine.
C11_MissingOptionalNeverRaises ==
    \A i \in 1..Len(last.calls) :
        \A name \in OmittedOptional :
            /\ last.calls[i].status \notin {"AttributeError", "KeyError"}
            /\ FedAs(name) \cap DOMAIN last.calls[i].fed = {}
            /\ FedAs(name) \cap NamesOf(last.calls[i], {"bind_input"}) = {}

\* the names the session of the task model declares and the caller left out
MissingDeclared == Range(model.session.inputs) \ DOMAIN last.kwargs

\* C12: a forward of ORTModelForCustomTasks in which the caller left out an
\* input the loaded graph declares fails with the missing-input error (the
\* KeyError of kwargs.pop(input)), before the engine is invoked.
C12_CustomTasksMissingInput ==
    (last.op = "forward" /\ model.cls = "ORTModelForCustomTasks" /\ MissingDeclared # {}) =>
        /\ last.status = "KeyError"
        /\ \A i \in 1..Len(last.calls) :
              /\ last.calls[i].status = "KeyError"
              /\ Invocations(last.calls[i]) = 0
              /\ DOMAIN last.calls[i].out = {}

\* a custom-task forward without the token_type_ids its graph declares
C12_Witness ==
    /\ last.op = "forward"
    /\ model.cls = "ORTModelForCustomTasks"
    /\ MissingDeclared = {"token_type_ids"}
    /\ Len(last.calls) = 1
    /\ last.status = "KeyError"

\* the sub-runners a bundle holds
SubRunners(b) ==
    {b.encoder, b.decoder}
    \cup (IF b.decoder_with_past.cls # "none" THEN {b.decoder_with_past} ELSE {})

\* the sessions of b are on one provider list, which b.providers holds, and
\* the sub-runners are on the device of b
Consistent(b) ==
    \A r \in SubRunners(b) :
        /\ r.session.providers = b.providers
        /\ r.device = b.device

\* C13: after every successful ORTModelForConditionalGeneration.to(device),
\* whatever retargets came before, the encoder, decoder and (when present)
\* decoder-with-past sessions are on the same provider list, which the
\* bundle's providers attribute holds, and the devices of the sub-runners are
\* the bundle's device: the one asked for.
C13_RetargetConsistent ==
    /\ bundle.cls # "none" => Consistent(bundle)
    /\ (last.op = "bundle_to" /\ last.status = "ok") =>
          /\ bundle.device = last.req.device
          /\ bundle.providers[1] = get_provider_for_device(last.req.device)

\* a bundle with a decoder with past was moved to cuda
C13_Witness ==
    /\ last.op = "bundle_to"
    /\ last.status = "ok"
    /\ last.req.device = "cuda"
    /\ bundle.decoder_with_past.cls # "none"
    /\ bundle.decoder_with_past.session.providers = <<CUDA, CPU>>
    /\ bundle.decoder_with_past.device = "cuda"

\* C14: ORTModelForConditionalGeneration.to(device) with a device whose
\* provider is not available fails with the provider-unavailable error and
\* changes nothing: the bundle's device and providers, the devices of its
\* sub-runners and the provider lists of its sessions are as before the call.
C14_FailedRetargetChangesNothing ==
    [][(last'.op = "bundle_to"
        /\ ~validate_provider_availability(get_provider_for_device(last'.req.device)))
       => (last'.status = "ProviderUnavailable" /\ bundle' = bundle)]_vars

\* a bundle with a decoder with past, on cpu, was asked to move to cuda where
\* the CUDA provider is not available
C14_Witness ==
    /\ last.op = "bundle_to"
    /\ last.status = "ProviderUnavailable"
    /\ last.req.device = "cuda"
    /\ CUDA \notin avail
    /\ bundle.decoder_with_past.cls # "none"
    /\ bundle.device = "cpu"

\* the last operation planned output buffers
IsPlan == last.op = "plan"

\* the planned outputs of the last planning, by name
PlanNames == {p.name : p \in Range(last.calls[1].plans)}
PlanFor(n) == PlanOf(last.calls[1].plans, n)

\* q is floor(len / 2)
IsHalf(q, len) == 2 * q <= len /\ len < 2 * q + 2

\* the sequence length of a hidden-state output over the planning's input
HiddenSeqLen(q) ==
    IF "input_features" \in DOMAIN last.kwargs
    THEN IsHalf(q, last.kwargs["input_features"].shape[3])
    ELSE q = last.kwargs["input_ids"].shape[2]

\* the batch size of the planning's input
PlanBatch ==
    IF "input_features" \in DOMAIN last.kwargs THEN last.kwargs["input_features"].shape[1]
    ELSE IF "pixel_values" \in DOMAIN last.kwargs THEN last.kwargs["pixel_values"].shape[1]
    ELSE last.kwargs["input_ids"].shape[1]

\* C15: the last_hidden_state buffer is planned with shape (batch, seq_len,
\* hidden_size), hidden_size being the model's; seq_len is the token sequence
\* length for ORTEncoder and ORTModelForFeatureExtraction, and
\* floor(feature length / 2) for ORTEncoderForWhisper, the feature length
\* being axis 2 of input_features.
C15_HiddenStateShape ==
    (IsPlan /\ "last_hidden_state" \in PlanNames) =>
        /\ Len(PlanFor("last_hidden_state").shape) = 3
        /\ PlanFor("last_hidden_state").shape[1] = PlanBatch
        /\ HiddenSeqLen(PlanFor("last_hidden_state").shape[2])
        /\ PlanFor("last_hidden_state").shape[3] = HiddenSize
        /\ last.calls[1].shapes["last_hidden_state"] = PlanFor("last_hidden_state").shape

\* the Whisper encoder planned its output for features of an odd length
C15_Witness ==
    /\ IsPlan
    /\ bundle.encoder.cls = "ORTEncoderForWhisper"
    /\ last.calls[1].runner = "encoder"
    /\ last.kwargs["input_features"].shape[1] = MaxBatch
    /\ last.kwargs["input_features"].shape[3] = 2 * MaxSeq + 1
    /\ PlanFor("last_hidden_state").shape = <<MaxBatch, MaxSeq, HiddenSize>>

\* the logits shape each runner is to plan over the planning's input
LogitsShape ==
    IF last.calls[1].runner # "model"
    THEN <<PlanBatch, last.kwargs["input_ids"].shape[2], VocabSize>>
    ELSE CASE model.cls = "ORTModelForTokenClassification" ->
                <<PlanBatch, last.kwargs["input_ids"].shape[2], NumLabels>>
           [] model.cls = "ORTModelForMultipleChoice" ->
                <<PlanBatch, last.kwargs["input_ids"].shape[2]>>
           [] OTHER -> <<PlanBatch, NumLabels>>

\* C16: the logits buffer of the bound path has shape (batch, num_labels) for
\* sequence and image classification, (batch, num_choices) for multiple choice
\* with num_choices axis 1 of input_ids, (batch, seq_len, num_labels) for token
\* classification and (batch, seq_len, vocab_size) for the decoder, whose loss
\* buffer has shape (1,).
C16_LogitsShape ==
    IsPlan =>
        /\ "logits" \in PlanNames =>
              /\ PlanFor("logits").shape = LogitsShape
              /\ last.calls[1].shapes["logits"] = LogitsShape
        /\ "loss" \in PlanNames =>
              /\ PlanFor("loss").shape = <<1>>
              /\ last.calls[1].shapes["loss"] = <<1>>

\* a decoder whose graph declares a loss planned its outputs for a batch of
\* several rows of several tokens
C16_Witness ==
    /\ IsPlan
    /\ last.calls[1].runner = "decoder"
    /\ {"logits", "loss"} \subseteq PlanNames
    /\ PlanFor("logits").shape = <<MaxBatch, MaxSeq, VocabSize>>
    /\ PlanFor("loss").shape = <<1>>

\* a multiple-choice model planned its logits for several choices
C16_WitnessChoices ==
    /\ IsPlan
    /\ model.cls = "ORTModelForMultipleChoice"
    /\ last.kwargs["input_ids"].shape = <<1, MaxSeq, MaxSeq>>
    /\ PlanFor("logits").shape = <<1, MaxSeq>>

\* the last operation planned the outputs of a decoder
IsDecoderPlan == IsPlan /\ last.calls[1].runner \in {"decoder", "decoder_with_past"}

\* the key/value output names of the decoder that planned, in session order
PlanCacheNames == key_value_output_names(RunnerOf(last.calls[1].runner))

\* sequence length of the layer-0 self-attention key of the cache handed in,
\* 0 without a cache
PlanPastLen == IF IsNone(last.past) THEN 0 ELSE The(last.past)[1][1].shape[3]

\* the shape a cache output is to be allocated with: k is its position among
\* the key/value output names, the first two of every four being the
\* self-attention key and value
CacheShape(k) ==
    IF (k - 1) % 4 < 2
    THEN <<last.kwargs["input_ids"].shape[1], NumHeads,
           last.kwargs["input_ids"].shape[2] + PlanPastLen, HiddenSize \div NumHeads>>
    ELSE <<last.kwargs["input_ids"].shape[1], NumHeads,
           last.kwargs["encoder_hidden_states"].shape[2], HiddenSize \div NumHeads>>

\* C17: of every four consecutive key/value output names of a decoder, the
\* first two (self-attention key and value) get a buffer of shape (batch,
\* num_heads, seq_len + past_len, head_dim), past_len being the sequence length
\* of the layer-0 self-attention key of the cache handed in and 0 without a
\* cache, and the last two (cross-attention key and value) one of shape
\* (batch, num_heads, encoder_seq_len, head_dim); head_dim is hidden_size /
\* num_heads.
C17_CacheBufferShapes ==
    IsDecoderPlan =>
        /\ Range(PlanCacheNames) \subseteq PlanNames
        /\ \A k \in 1..Len(PlanCacheNames) :
              /\ PlanFor(PlanCacheNames[k]).shape = CacheShape(k)
              /\ PlanFor(PlanCacheNames[k]).buffer.numel = Prod(CacheShape(k))

\* a decoder with past of several layers planned its cache outputs for several
\* tokens on top of a cache of several positions, the encoder sequence being
\* of another length
C17_Witness ==
    /\ IsDecoderPlan
    /\ ~IsNone(last.past)
    /\ Len(PlanCacheNames) = 4 * MaxLayers
    /\ PlanFor(PlanCacheNames[4 * MaxLayers - 2]).shape
          = <<MaxBatch, NumHeads, 2 * MaxSeq, HiddenSize \div NumHeads>>
    /\ PlanFor(PlanCacheNames[4 * MaxLayers]).shape
          = <<MaxBatch, NumHeads, 1, HiddenSize \div NumHeads>>

\* the calls of the last operation in which a decoder planned its outputs
DecoderPlannings ==
    {i \in 1..Len(last.calls) :
        /\ last.calls[i].runner \in {"decoder", "decoder_with_past"}
        /\ last.calls[i].plans # <<>>}

\* the output_shapes entry of a cache output: the shape the buffer was
\* allocated and bound with, the sequence axis marked -1
ReportedOpen(reported, allocated) ==
    /\ Len(reported) = 4 /\ Len(allocated) = 4
    /\ reported[3] = -1
    /\ \A k \in {1, 2, 4} : reported[k] = allocated[k] /\ allocated[k] >= 0
    /\ allocated[3] >= 0

\* C18: in the output_shapes of a bound decoder step, the entry of every
\* self-attention and cross-attention cache output has the sequence axis
\* (axis 2) at -1 and the batch, num_heads and head_dim axes at the values the
\* buffer was allocated and bound with; the entries of logits and loss are
\* fully concrete.
C18_CacheShapesReportedOpen ==
    \A i \in DecoderPlannings :
        \A k \in 1..Len(last.calls[i].plans) :
            IF IsKeyValueName(last.calls[i].plans[k].name)
            THEN ReportedOpen(last.calls[i].shapes[last.calls[i].plans[k].name],
                              last.calls[i].plans[k].shape)
            ELSE /\ last.calls[i].plans[k].name \in {"logits", "loss"}
                 /\ last.calls[i].shapes[last.calls[i].plans[k].name]
                       = last.calls[i].plans[k].shape
                 /\ \A a \in 1..Len(last.calls[i].plans[k].shape) :
                       last.calls[i].plans[k].shape[a] >= 0

\* a decoder whose graph declares a loss planned logits, loss and the cache
\* outputs of several layers for several tokens
C18_Witness ==
    /\ IsDecoderPlan
    /\ "loss" \in PlanNames
    /\ Len(PlanCacheNames) = 4 * MaxLayers
    /\ PlanFor(PlanCacheNames[1]).shape[3] = MaxSeq
    /\ last.calls[1].shapes[PlanCacheNames[1]]
          = <<MaxBatch, NumHeads, -1, HiddenSize \div NumHeads>>
    /\ last.calls[1].shapes[PlanCacheNames[4 * MaxLayers]][3] = -1
    /\ last.calls[1].shapes["logits"] = <<MaxBatch, MaxSeq, VocabSize>>

\* the calls of the last operation that planned output buffers
Plannings == {i \in 1..Len(last.calls) : last.calls[i].plans # <<>>}

\* the buffer of plan p holds as many elements as the shape it was allocated
\* and bound with, whose axes are all known
AllocatedForShape(p) ==
    /\ \A a \in 1..Len(p.shape) : p.shape[a] >= 0
    /\ p.buffer.numel = Prod(p.shape)

\* C19: every output buffer a prepare_output_buffer / prepare_logits_buffer
\* allocates holds as many elements as the product of the shape returned with
\* it, for all shape parameters from 0 up.  output_shapes keeps that shape for
\* every output but the decoder's cache outputs, for which it keeps the shape
\* with the sequence axis at -1.
C19_BufferHoldsItsShape ==
    \A i \in Plannings :
        \A k \in 1..Len(last.calls[i].plans) :
            /\ AllocatedForShape(last.calls[i].plans[k])
            /\ last.calls[i].shapes[last.calls[i].plans[k].name]
                  = IF IsKeyValueName(last.calls[i].plans[k].name)
                    THEN [last.calls[i].plans[k].shape EXCEPT ![3] = -1]
                    ELSE last.calls[i].plans[k].shape

\* C19 as stated: the element count of every output buffer is the product of
\* the shape kept for it in output_shapes.
C19_BufferHoldsReportedShape ==
    \A i \in Plannings :
        \A k \in 1..Len(last.calls[i].plans) :
            last.calls[i].plans[k].buffer.numel
                = Prod(last.calls[i].shapes[last.calls[i].plans[k].name])

\* a decoder planned non-empty cache buffers next to logits, and a planning
\* for an empty batch allocated empty buffers
C19_Witness ==
    /\ IsDecoderPlan
    /\ Len(PlanCacheNames) = 4 * MaxLayers
    /\ PlanFor("logits").buffer.numel = MaxBatch * MaxSeq * VocabSize
    /\ PlanFor(PlanCacheNames[1]).buffer.numel
          = MaxBatch * NumHeads * MaxSeq * (HiddenSize \div NumHeads)
    /\ PlanFor(PlanCacheNames[3]).buffer.numel = 0

\* positions of the events of kind `kind` on output `name` in a call's log
EventsOn(c, kind, name) == {k \in EventsOf(c, {kind}) : c.log[k].name = name}

\* every output the session declares has its buffer allocated once, before it
\* is bound, and every allocation and binding is over when the engine is
\* invoked
AllocatedAhead(c, outputs) ==
    /\ \A n \in outputs :
          /\ Cardinality(EventsOn(c, "empty", n)) = 1
          /\ Cardinality(EventsOn(c, "bind_output", n)) = 1
          /\ \A a \in EventsOn(c, "empty", n), b \in EventsOn(c, "bind_output", n) : a < b
    /\ \A a \in EventsOf(c, {"empty"}) : c.log[a].name \in outputs
    /\ \A a \in EventsOf(c, {"empty", "bind_output"}),
          r \in EventsOf(c, {"synchronize_inputs", "run_with_iobinding",
                             "synchronize_outputs"}) : a < r

\* C20: in a call on the bound path every output buffer of the invocation
\* (logits, loss, every self- and cross-attention cache tensor of every layer;
\* in general every output the session declares) is sized and allocated before
\* it is bound and before the engine is invoked, and nothing is allocated from
\* the start of the invocation to synchronize_outputs, nor after.
C20_NoLazyAllocation ==
    \A i \in 1..Len(last.calls) :
        (last.calls[i].path = "bound" /\ Invocations(last.calls[i]) > 0) =>
            AllocatedAhead(last.calls[i],
                           Range(RunnerOf(last.calls[i].runner).session.outputs))

\* a bound decoder-with-past call of several layers completed: logits and four
\* cache buffers per layer were allocated
C20_Witness ==
    /\ IsStep
    /\ \E i \in CallsBy("decoder_with_past") :
          /\ last.calls[i].path = "bound"
          /\ last.calls[i].status = "ok"
          /\ Cardinality(EventsOf(last.calls[i], {"empty"})) = 1 + num_pkv * MaxLayers
          /\ Cardinality(EventsOf(last.calls[i], {"synchronize_outputs"})) = 1

\* a speech bundle exists only over a registered architecture, with the
\* encoder variant registered for it
RegisteredEncoder ==
    bundle.cls = "ORTModelForSpeechSeq2Seq" =>
        /\ bundle.model_type \in DOMAIN MODEL_TYPE_TO_ORTENCODER
        /\ bundle.encoder.cls = MODEL_TYPE_TO_ORTENCODER[bundle.model_type]

\* a construction that failed for its architecture created nothing
FailedClosed ==
    (last'.op = "load_bundle" /\ last'.status = "KeyError") =>
        (bundle' = bundle /\ model' = model)

\* C24: constructing ORTModelForSpeechSeq2Seq for a model type without a
\* registered encoder variant fails at construction (the KeyError of
\* _initialize_encoder) and creates no encoder, decoder or decoder-with-past
\* runner; for a registered model type (whisper) the registered encoder
\* variant is the bundle's encoder.
C24_UnregisteredArchitectureFailsClosed ==
    []RegisteredEncoder /\ [][FailedClosed]_vars

\* the construction of a speech bundle failed for its architecture although
\* its provider is available
C24_Witness ==
    /\ last.op = "load_bundle"
    /\ last.status = "KeyError"
    /\ validate_provider_availability(last.req.provider)
    /\ bundle = NoBundle

\* the step is a forward of ORTModelForCustomTasks
CustomTasksStep == last'.op = "forward" /\ model.cls = "ORTModelForCustomTasks"

\* a custom-task forward that lacks a declared input invokes nothing, returns
\* nothing and leaves the model as it was
MissingInputLeavesModel ==
    (CustomTasksStep /\ Range(model.session.inputs) \ DOMAIN last'.kwargs # {}) =>
        /\ last'.status # "ok"
        /\ Invocations(last'.calls[1]) = 0
        /\ DOMAIN last'.out = {}
        /\ model' = model

\* a custom-task forward that is given every declared input completes, whatever
\* calls came before it, and leaves the model as it was
CompleteInputSucceeds ==
    (CustomTasksStep /\ Range(model.session.inputs) \subseteq DOMAIN last'.kwargs) =>
        /\ last'.status = "ok"
        /\ Invocations(last'.calls[1]) = 1
        /\ DOMAIN last'.calls[1].fed = Range(model.session.inputs)
        /\ DOMAIN last'.out = Range(model.session.outputs)
        /\ model' = model

\* C25: an ORTModelForCustomTasks forward that fails for a missing declared
\* input fails before the engine is invoked and leaves the model unchanged, so
\* that a later forward with every declared input behaves as if the failed one
\* had not happened.
C25_MissingInputCorruptsNothing ==
    [][MissingInputLeavesModel /\ CompleteInputSucceeds]_vars

\* a custom-task forward failed on cuda without the token_type_ids its graph
\* declares
C25_Witness ==
    /\ last.op = "forward"
    /\ model.cls = "ORTModelForCustomTasks"
    /\ model.device = "cuda"
    /\ MissingDeclared = {"token_type_ids"}
    /\ last.status = "KeyError"
    /\ Invocations(last.calls[1]) = 0

\* C26: ORTModel.to(device) with a device whose provider is not available
\* fails and leaves the model unchanged: its device, its providers and the
\* provider list of its session are as before the call, so that the device is
\* still the one of the provider active in the session.
C26_FailedToChangesNothing ==
    [][(last'.op = "to" /\ last'.status = "ProviderUnavailable") =>
          /\ model' = model
          /\ model'.device = get_device_for_provider(model'.session.providers[1])]_vars

\* C30: every tensor a runner returns from the fallback path is on the current
\* device of that runner, the device the bound path returns it on.
C30_FallbackOutputsOnDevice ==
    \A i \in 1..Len(last.calls) :
        (last.calls[i].path = "fallback" /\ last.calls[i].status = "ok") =>
            \A n \in DOMAIN last.calls[i].out :
                last.calls[i].out[n].device = RunnerOf(last.calls[i].runner).device

\* the call c of the decoder with past received the cache `past` under the
\* declared key/value input names `names`: the i-th name the i-th tensor of
\* the cache read layer by layer, each layer as (self key, self value, cross
\* key, cross value), each name once
CacheFedInOrder(c, names, past) ==
    \A l \in 1..Len(past) :
        \A j \in 1..num_pkv :
            (l - 1) * num_pkv + j <= Len(names) =>
                /\ names[(l - 1) * num_pkv + j] = PastNames[l][j]
                /\ names[(l - 1) * num_pkv + j] \in DOMAIN c.fed
                /\ c.fed[names[(l - 1) * num_pkv + j]] = Val(past[l][j])
                /\ c.path = "bound" =>
                      Cardinality(EventsOn(c, "bind_input", names[(l - 1) * num_pkv + j])) = 1

\* every declared key/value input received a tensor and no tensor of the
\* cache was left out
CacheFedWhole(c, names, past) ==
    /\ Len(names) = num_pkv * Len(past)
    /\ DOMAIN c.fed \cap KeyValueNames = Range(names)

\* C28: in a step with a cache, on both paths, the i-th declared key/value
\* input name of the decoder-with-past session receives the i-th tensor of the
\* cache flattened layer by layer in the order (self key, self value, cross
\* key, cross value); when the cache is the one the previous step of the same
\* bundle returned, every declared key/value input is bound exactly once and
\* no cache tensor is dropped.
C28_CacheInputsInOrder ==
    IsStep =>
        \A i \in CallsBy("decoder_with_past") :
            Invocations(last.calls[i]) > 0 =>
                /\ CacheFedInOrder(last.calls[i],
                                   key_value_input_names(bundle.decoder_with_past),
                                   The(last.past))
                /\ last.op = "gen_step" =>
                      CacheFedWhole(last.calls[i],
                                    key_value_input_names(bundle.decoder_with_past),
                                    The(last.past))

\* a generation step fed the cache returned by the previous step to a
\* decoder with past of several layers, on the bound path
C28_Witness ==
    /\ last.op = "gen_step"
    /\ last.status = "ok"
    /\ ~IsNone(last.past)
    /\ Len(The(last.past)) = MaxLayers
    /\ The(last.past)[1][1].v.g \in {"decoder", "decoder_with_past"}
    /\ \E i \in CallsBy("decoder_with_past") : last.calls[i].path = "bound"

\* the decoder call of the last step, when the step ran on the bound path of a
\* bundle that has a decoder with past
BoundDecoderCalls ==
    {i \in 1..Len(last.calls) :
        /\ last.calls[i].runner \in {"decoder", "decoder_with_past"}
        /\ last.calls[i].path = "bound"
        /\ last.calls[i].status = "ok"
        /\ bundle.decoder_with_past.cls # "none"}

\* every self-attention tensor of `cache` is `self_len` long and every
\* cross-attention tensor `cross_len` long, and each holds what the engine wrote
CacheLengths(cache, self_len, cross_len) ==
    /\ Len(cache) > 0
    /\ \A l \in 1..Len(cache) :
          /\ Size(cache[l][1], 2) = self_len
          /\ Size(cache[l][2], 2) = self_len
          /\ Size(cache[l][3], 2) = cross_len
          /\ Size(cache[l][4], 2) = cross_len
          /\ \A j \in 1..num_pkv : cache[l][j].v.g # "unwritten"

\* a step on a decoder input n long without cache returns a cache n long; a
\* step fed a cache p long returns a cache p + 1 long
StepCacheLengths ==
    IsStep =>
        \A i \in BoundDecoderCalls :
            CacheLengths(The(last.past_key_values),
                         IF last.calls[i].runner = "decoder"
                         THEN Size(last.kwargs["decoder_input_ids"], 1)
                         ELSE Size(The(last.past)[1][1], 2) + 1,
                         Size(last.calls[i].fed["encoder_hidden_states"], 1))

\* in a generation episode, which starts on a decoder input 1 long: after the
\* step without cache and k steps fed the previous cache, the cache is 1 + k long
EpisodeCacheLengths ==
    last.op = "gen_step" =>
        \A i \in BoundDecoderCalls :
            /\ (last.calls[i].runner = "decoder") <=> (gen.steps = 1)
            /\ gen.past = last.past_key_values
            /\ CacheLengths(The(last.past_key_values), 1 + (gen.steps - 1),
                            Size(gen.kwargs["encoder_outputs"], 1))

\* C27: on the bound path of a bundle with a decoder with past, after a step
\* without cache on a decoder input n long and then k steps each fed the cache
\* the previous one returned, every self-attention key/value of the returned
\* cache is n + k long and every cross-attention tensor is as long as the
\* encoder sequence.
C27_CacheGrowsByOnePerStep == StepCacheLengths /\ EpisodeCacheLengths

\* the third step of an episode on the bound path returned its cache
C27_Witness ==
    /\ last.op = "gen_step"
    /\ gen.steps = MaxSteps
    /\ BoundDecoderCalls # {}
    /\ Size(The(last.past_key_values)[1][1], 2) = MaxSteps
    /\ Size(The(last.past_key_values)[1][3], 2) = MaxSeq

\* C23: the element types of a session are read once, when the runner is
\* built, and kept; no forward call of any runner, on any path, reads the
\* session's type signature again.
C23_NoTypeQueryInForward ==
    \A i \in 1..Len(last.calls) : EventsOf(last.calls[i], {"get_output_type"}) = {}

\* the engine rejected the invocation of call c
EngineFailed(c) == c.status = "InvalidArgument" /\ Invocations(c) = 1

\* names of the events of the given kinds in the log of call c
NamesIn(c, kinds) == {c.log[k].name : k \in EventsOf(c, kinds)}

\* a call the engine rejected returned nothing and read none of its buffers;
\* what it had bound for the engine to write were buffers it allocated itself,
\* none of them a tensor it was given
FailedCleanly(c) ==
    /\ DOMAIN c.out = {}
    /\ c.past_key_values = <<>>
    /\ EventsOf(c, {"view", "from_numpy", "synchronize_outputs"}) = {}
    /\ \A k \in EventsOf(c, {"bind_output"}) :
          \E a \in EventsOn(c, "empty", c.log[k].name) : a < k
    /\ NamesIn(c, {"bind_output"}) \cap NamesIn(c, {"bind_input"}) = {}
    /\ NamesIn(c, {"bind_output"}) \cap DOMAIN c.fed = {}

\* the operation that just ended had a runner call rejected by the engine
EngineFailure == \E i \in 1..Len(last'.calls) : EngineFailed(last'.calls[i])

FailureLeavesNothing ==
    EngineFailure =>
        /\ last'.status = "InvalidArgument"
        /\ DOMAIN last'.out = {}
        /\ IsNone(last'.past_key_values)
        /\ \A i \in 1..Len(last'.calls) :
              EngineFailed(last'.calls[i]) =>
                  i = Len(last'.calls) /\ FailedCleanly(last'.calls[i])
        /\ model' = model
        /\ bundle' = bundle
        /\ avail' = avail

\* C22: when the engine invocation of a forward call fails, the call returns
\* no output; the buffers allocated for it are never exposed, the failed call
\* writes no buffer an earlier call returned, and the model's state (device,
\* providers, binding flag, name tables) is unchanged.
C22_EngineFailureLeavesNothing == [][FailureLeavesNothing]_vars

\* the engine rejected the decoder with past on the bound path, after its
\* output buffers were allocated and bound
C22_Witness ==
    /\ last.op = "step"
    /\ last.status = "InvalidArgument"
    /\ \E i \in CallsBy("decoder_with_past") :
          /\ last.calls[i].path = "bound"
          /\ EngineFailed(last.calls[i])
          /\ Cardinality(EventsOf(last.calls[i], {"empty"}))
                = Len(bundle.decoder_with_past.session.outputs)

\* C29: in load_model of the task models and of the conditional-generation
\* bundle and in to(), whenever provider options are handed to the engine the
\* providers list and the provider_options list have the same length, for
\* every provider, TensorrtExecutionProvider (to which CUDAExecutionProvider
\* is appended) included.
C29_ProviderListsSameLength ==
    \A i \in 1..Len(last.engine_args) :
        ~IsNone(last.engine_args[i].provider_options) =>
            Len(last.engine_args[i].providers)
                = Len(The(last.engine_args[i].provider_options))

\* the calls that bound an output buffer or invoked the engine
FlightCalls == {o.call : o \in flight.outputs \cup flight.invoked}

\* no buffer is bound as an output twice, by one call or by two
FreshOutputs ==
    \A a, b \in flight.outputs :
        a.buffer = b.buffer => (a.call = b.call /\ a.binding = b.binding)

\* every call has an IOBinding of its own, handed to the engine by that call only
OwnBinding ==
    \A a, b \in flight.outputs \cup flight.inputs \cup flight.invoked :
        (a.binding = b.binding) <=> (a.call = b.call)

\* a buffer a call was given as an input is an output buffer of an earlier
\* call of the same thread, never of the call itself or of a later one
InputsFromEarlier ==
    \A i \in flight.inputs, o \in flight.outputs :
        i.buffer = o.buffer => (i.call[1] = o.call[1] /\ o.call[2] < i.call[2])

\* the cache a thread holds is made of buffers its last call bound, and of no
\* buffer any other call bound
CacheOfLastCall ==
    \A t \in DOMAIN flight.thr :
        \A k \in 1..Len(flight.thr[t].cache) :
            \A o \in flight.outputs :
                o.buffer = flight.thr[t].cache[k] => o.call = <<t, flight.thr[t].n - 1>>

\* between calls a thread holds no IOBinding and no output_buffers
NothingKept ==
    \A t \in DOMAIN flight.thr :
        flight.thr[t].pc = 0 =>
            /\ IsNone(flight.thr[t].binding)
            /\ DOMAIN flight.thr[t].buffers = {}

\* C21: every bound forward creates its own IOBinding and allocates its own
\* output buffers; over any interleaving of the calls of two threads on the
\* same bundle, no output buffer bound by one call is bound as an output by
\* another, an IOBinding is handed to one invocation only and is not kept
\* across calls, and the cache a step returns is no output buffer of an
\* earlier step.
C21_FreshBuffersAndBindingPerCall ==
    /\ FreshOutputs
    /\ OwnBinding
    /\ InputsFromEarlier
    /\ CacheOfLastCall
    /\ NothingKept

\* both threads are inside a call with a cache at once, each having bound
\* outputs, after earlier calls of both
C21_Witness ==
    /\ \A t \in DOMAIN flight.thr :
          /\ flight.thr[t].n >= 1
          /\ flight.thr[t].pc > 0
          /\ \E o \in flight.outputs : o.call = <<t, flight.thr[t].n>>
          /\ \E i \in flight.inputs : i.call = <<t, flight.thr[t].n>>
    /\ Cardinality(FlightCalls) >= 4

====
